---- MODULE Spec2Model ----
(***************************************************************************)
(* Kachifo: trend aggregation (api_integrations.py) and the Flask entry    *)
(* points, quota guard and session store (app.py).                         *)
(*                                                                         *)
(* Time is in seconds.  Each specification below drives one part of the    *)
(* program; the variables it does not use keep their initial value.        *)
(***************************************************************************)
EXTENDS Integers, Sequences, FiniteSets, TLC

(***************************************************************************)
(* Bounds of the model (not program constants).                           *)
(***************************************************************************)
\* Items returned by all providers together in one fetch_trending_topics call.
MaxTotalItems == 3
\* update_conversation_history calls on one session between two resets of its
\* history (SpecSession).
MaxAppends == 15
\* Days the clock of SpecSession can reach.
MaxDays == 1

(***************************************************************************)
(* Program constants.                                                      *)
(***************************************************************************)
\* api_integrations.py:19  summary_cache = TTLCache(maxsize=1000, ttl=3600)
SUMMARY_TTL == 3600
\* api_integrations.py:166 @retry_with_backoff(Exception, tries=3)
RETRY_TRIES == 3
\* api_integrations.py:376/438 maxResults=3, limit=3 (the provider returns at most 3)
PROVIDER_TOP_N == 3
\* api_integrations.py:465 result.get('articles', [])[:3]
NEWS_LIMIT == 3
\* app.py:207 current_time - data.get('last_updated', 0) > 86400
SESSION_TTL == 86400
\* app.py:232 if len(history) > 11:  # 1 system + 10 messages
MAX_HISTORY == 11
\* app.py:108 remaining_requests = 60
RATE_LIMIT == 60
\* app.py:109 cache.set(key, remaining_requests, timeout=3600)
RATE_WINDOW == 3600
\* app.py:517 cache.set(cache_key, final_response, timeout=1800)
SEARCH_TTL == 1800
\* min_interval of rate_limited(1.0), in seconds
MIN_INTERVAL == 1
\* api_integrations.py:503 @retry_with_backoff(Exception, tries=2)
WEB_SEARCH_TRIES == 2
\* api_integrations.py:123 delay=2, backoff=2
RETRY_DELAY == 2
RETRY_BACKOFF == 2

None == "None"

\* The providers in the order fetch_trending_topics calls them.
ProviderOrder == <<"YouTube", "Reddit", "Google", "NewsAPI">>
Providers == {ProviderOrder[i] : i \in 1..Len(ProviderOrder)}

\* What a provider's API can hold for one item: title, url, and the text the
\* adapter summarizes (description / selftext / snippet).  All texts of the
\* model are shorter than the adapters' truncation lengths (500, 1024).
RawItems ==
    { [title |-> "t1", url |-> "u1", text |-> "d1"],
      [title |-> "t2", url |-> "u2", text |-> ""] }

\* How an outbound provider call can end: requests.get raising (timeout,
\* connection), raise_for_status raising, the body not parsing / not having
\* the expected shape, or a well-formed answer.
FailKinds == {"timeout", "http_error", "parse_error"}

SeqsUpTo(S, n) == UNION {[1..k -> S] : k \in 0..n}

Queries == {"q1", "q2"}

(***************************************************************************)
(* The Enrichment Service (Hugging Face summarization endpoint): what one  *)
(* call to inference_summary.summarization can do.                         *)
(***************************************************************************)
HFRaise == [type |-> "raise", truthy |-> FALSE, has_key |-> FALSE, text |-> ""]
HFStr(s) == [type |-> "str", truthy |-> s # "", has_key |-> FALSE, text |-> s]
HFDict(s) == [type |-> "dict", truthy |-> TRUE, has_key |-> TRUE, text |-> s]
HFDictNoKey == [type |-> "dict", truthy |-> TRUE, has_key |-> FALSE, text |-> ""]
HFOtherFalsy == [type |-> "other", truthy |-> FALSE, has_key |-> FALSE, text |-> ""]
HFOther(s) == [type |-> "other", truthy |-> TRUE, has_key |-> FALSE, text |-> s]

HFOutcomes ==
    { HFRaise, HFStr("S1"), HFStr(""), HFDict("S1"), HFDict(""), HFDictNoKey,
      HFOtherFalsy, HFOther("S2") }

VARIABLES
    now,               \* time.time()
    \* ---- api_integrations.py module state
    inference_summary, \* the summarization client, or None
    summary_cache,     \* TTLCache: text -> [value, expires]
    hf_outcome,        \* what a call to the Enrichment Service does at present
    credentials,       \* the providers whose API keys are configured
    \* ---- one execution of fetch_trending_topics
    fquery,            \* its argument
    fpc,               \* 0: not running; i in 1..4: about to call provider i;
                       \* 5: combining; 6: returned; 7: an exception left it
    inflight,          \* providers with an outbound request pending
    ftries,            \* _tries of retry_with_backoff around the current provider
    failed,            \* providers whose outbound call failed in this execution
    returned,          \* provider -> raw items its API answered with
    trends,            \* provider -> youtube_trends, reddit_trends, ...
    fcalls,            \* provider -> outbound requests issued in this execution
    all_trends,        \* the list fetch_trending_topics returns
    \* ---- app.py module state
    conversation_store, \* session id -> [history, last_updated]
    \* ---- history of the run (read by the claims only)
    appended,          \* session id -> update_conversation_history calls since
                       \* its history was last just the system turn
    lastTurn,          \* the turn the last update_conversation_history call added
    last_access,       \* the last get_conversation_history call: its session,
                       \* whether the session was stored and idle for more than
                       \* 24 hours, the turns it held, and the history returned
    last_clear,        \* the clear_history call, if the last store operation
                       \* was one: its session, whether the store held it,
                       \* and the store before the call
    item_result,       \* what the last summarize_with_hf call returned
    item_call,         \* that call: its text and whether the service call it
                       \* made raised
    general_result,    \* what the last generate_general_summary call returned
    enrich_raised,     \* whether an exception left one of these calls
    hf_ever_answered,  \* whether a call to the Enrichment Service ever succeeded
    \* ---- app.py module state
    cache,             \* the Flask cache: key -> [value, expires]
    \* ---- history of the run (read by the claims only)
    search_first,      \* query -> the process_search_query call that opened the
                       \* current cache window of the query: [called, at, results]
    last_search,       \* the last process_search_query call
    admitted,          \* client -> requests rate_limit let through in its window
    last_request,      \* the last request to a rate limited endpoint
    daily_usage_count, \* app.py:45
    quota_window,      \* client -> the hour that began with its first request,
                       \* the time of its last admitted request (-1: none), the
                       \* requests rejected since, and how many had been
                       \* rejected when that request was admitted
                       \* after the previous such hour: [at, requests]
    \* ---- one function wrapped by rate_limited, called by several threads
    last_called,       \* last_called[0] of the decorator's closure
    wrapper_pc,        \* thread -> where it is in wrapper: "idle" | "sleeping" | "ready"
    wake_at,           \* thread -> when its time.sleep(wait_time) is over
    calls_done,        \* thread -> calls of the wrapper it has completed
    entered_at,        \* thread -> when it entered the wrapper for its current call
    invocations,       \* the starts of the wrapped function: [thread, call, at]
    \* ---- one function wrapped by retry_with_backoff
    retry_config,      \* the decorator's tries argument
    retry_pc,          \* "idle" | "calling" | "sleeping"
    cur_tries,         \* _tries
    delay,             \* _delay
    attempt_log,       \* the attempts of the current call: <<[outcome, at], ...>>
    retry_result,      \* how the last call of the wrapper ended
    retry_raised,      \* the exception that left the wrapper, if one did
    wrapper_calls,     \* calls of the wrapper started
    \* ---- requests of one client inside rate_limit's wrapper at the same time
    worker_pc,         \* worker thread -> "idle" | "checked"
    worker_remaining,  \* worker thread -> its local remaining_requests
    requests_started,  \* requests that entered rate_limit's wrapper
    \* ---- api_integrations.py module state
    web_search_cache,  \* line 21: query -> the results perform_web_search returned
    analysis_cache,    \* line 22: <<topic, content_list>> -> analysis text
    inference_bot,     \* the model of the conversational client, None without one
    \* ---- one browser's Flask session and the uuids drawn so far
    flask_session,     \* session['session_id'], None while unset
    uuids_issued,      \* uuid.uuid4() calls made by interact
    \* ---- history of the run (read by the claims only)
    last_interact,     \* the last /interact request and what it did
    classified,        \* the last classify_input_type call made on its own
    last_web           \* the last perform_web_search call made on its own, and
                       \* per query the time of its last failed request

fetchVars == <<fquery, fpc, inflight, ftries, failed, returned, trends, fcalls, all_trends>>
hfVars == <<inference_summary, summary_cache, hf_outcome, credentials>>

sessionVars == <<conversation_store, appended, lastTurn, last_access, last_clear>>

enrichVars == <<item_result, item_call, general_result, enrich_raised, hf_ever_answered>>

appVars == <<cache, daily_usage_count, search_first, last_search, admitted, last_request,
             quota_window>>

limiterVars == <<last_called, wrapper_pc, wake_at, calls_done, entered_at, invocations>>

retryVars == <<retry_config, retry_pc, cur_tries, delay, attempt_log, retry_result,
               retry_raised, wrapper_calls>>

workerVars == <<worker_pc, worker_remaining, requests_started>>

interactVars == <<web_search_cache, analysis_cache, inference_bot, flask_session,
                  uuids_issued, last_interact, classified, last_web>>

vars == <<now, hfVars, fetchVars, sessionVars, enrichVars, appVars, limiterVars,
          retryVars, workerVars, interactVars>>

\* What each specification leaves alone.
outsideFetch == <<sessionVars, enrichVars, appVars, limiterVars, retryVars, workerVars,
                  interactVars>>
outsideSession == <<hfVars, fetchVars, enrichVars, appVars, limiterVars, retryVars,
                    workerVars, interactVars>>
outsideEnrich == <<credentials, fetchVars, sessionVars, appVars, limiterVars, retryVars,
                   workerVars, interactVars>>
outsideSearch == <<inference_summary, hf_outcome, credentials, fetchVars, enrichVars,
                   lastTurn, last_access, last_clear, limiterVars, retryVars, workerVars,
                   interactVars, daily_usage_count>>
outsideLimiter == <<hfVars, fetchVars, sessionVars, enrichVars, appVars, retryVars,
                    workerVars, interactVars>>
outsideRetry == <<hfVars, fetchVars, sessionVars, enrichVars, appVars, limiterVars,
                  workerVars, interactVars>>
outsideWorkers == <<now, hfVars, fetchVars, sessionVars, enrichVars, limiterVars,
                    retryVars, search_first, last_search, quota_window,
                    daily_usage_count, interactVars>>

(***************************************************************************)
(* TTL caches: an entry is returned only while now < expires.              *)
(***************************************************************************)
CacheLive(c, k, t) == k \in DOMAIN c /\ t < c[k].expires

CachePut(c, k, v, t, ttl) ==
    [x \in DOMAIN c \cup {k} |-> IF x = k THEN [value |-> v, expires |-> t + ttl] ELSE c[x]]

EmptyCache == [x \in {} |-> [value |-> "", expires |-> 0]]

(***************************************************************************)
(* summarize_with_hf / generate_general_summary                            *)
(***************************************************************************)
\* api_integrations.py:189-195 (and 155-160): the summary taken from a response.
response_summary(response) ==
    IF response.type = "str" THEN response.text
    ELSE IF response.type = "dict"
         THEN (IF response.has_key THEN response.text ELSE "No summary available")
    ELSE (IF response.truthy THEN response.text ELSE "No summary available")

summarize_on_error_empty(c) ==
    [summary |-> "", cache |-> c, called |-> TRUE, raised |-> FALSE]

\* api_integrations.py:200-202: `except Exception` of summarize_with_hf.
summarize_on_error(c) ==
    [summary |-> "Sorry, summarization is unavailable at the moment.",
     cache |-> c, called |-> TRUE, raised |-> FALSE]

\* summarize_with_hf(text) with the module state it reads passed in: the
\* cache, the client, the time, and what the service call does.  The result
\* carries the summary, the cache afterwards, whether the service was called
\* and whether an exception left the function.  (No path raises, so the
\* retry_with_backoff around it never repeats the call.)
summarize_with_hf(text, c, client, outcome, t) ==
    IF text = ""
    THEN [summary |-> "No content to summarize.", cache |-> c,
          called |-> FALSE, raised |-> FALSE]
    ELSE IF CacheLive(c, text, t)
    THEN [summary |-> c[text].value, cache |-> c, called |-> FALSE, raised |-> FALSE]
    ELSE IF client = None
    THEN [summary |-> "Summarization service unavailable at the moment.",
          cache |-> c, called |-> FALSE, raised |-> FALSE]
    ELSE IF outcome.type = "raise"
    THEN summarize_on_error(c)
    ELSE [summary |-> response_summary(outcome),
          cache |-> CachePut(c, text, response_summary(outcome), t, SUMMARY_TTL),
          called |-> TRUE, raised |-> FALSE]

general_on_error_empty == [summary |-> "", called |-> TRUE, raised |-> FALSE]

\* api_integrations.py:161-163: `except Exception` of generate_general_summary.
general_on_error ==
    [summary |-> "Sorry, I couldn't generate a summary at the moment.",
     called |-> TRUE, raised |-> FALSE]

nothing_to_summarize_blank == [summary |-> "", called |-> FALSE, raised |-> FALSE]

\* api_integrations.py:143-144: the early return for an empty list.
nothing_to_summarize ==
    [summary |-> "No information available to summarize.",
     called |-> FALSE, raised |-> FALSE]

\* generate_general_summary(individual_summaries); the combined text is not
\* cached, so only the client and the service call decide the result.
generate_general_summary(individual_summaries, client, outcome) ==
    IF individual_summaries = <<>>
    THEN nothing_to_summarize
    ELSE IF client = None
    THEN [summary |-> "Summary service unavailable at the moment.",
          called |-> FALSE, raised |-> FALSE]
    ELSE IF outcome.type = "raise"
    THEN general_on_error
    ELSE [summary |-> response_summary(outcome), called |-> TRUE, raised |-> FALSE]

(***************************************************************************)
(* Provider adapters                                                       *)
(***************************************************************************)
Take(s, n) == SubSeq(s, 1, IF Len(s) < n THEN Len(s) ELSE n)

\* A provider's answer to one outbound call.
ProviderFailure(kind) == [kind |-> kind, items |-> <<>>]
ProviderAnswer(items) == [kind |-> "ok", items |-> items]

\* The text an adapter hands to summarize_with_hf for an item
\* (api_integrations.py:386, 411, 439, 470).
item_text(p, raw) ==
    IF p = "Reddit" /\ raw.text = "" THEN "No content available" ELSE raw.text

\* The list comprehension / loop of an adapter: each raw item mapped to
\* {title, url, summary, source}, the summaries computed left to right through
\* the summary cache.
RECURSIVE map_items(_, _, _, _, _, _)
map_items(p, items, c, client, outcome, t) ==
    IF items = <<>>
    THEN [value |-> <<>>, cache |-> c, raised |-> FALSE]
    ELSE LET item == Head(items)
             mapped(s, rest) ==
                 [value |-> <<[title |-> item.title, url |-> item.url,
                               summary |-> s.summary, source |-> p]>> \o rest.value,
                  cache |-> rest.cache, raised |-> rest.raised]
             summarized(s) ==
                 IF s.raised
                 THEN [value |-> <<>>, cache |-> s.cache, raised |-> TRUE]
                 ELSE mapped(s, map_items(p, Tail(items), s.cache, client, outcome, t))
         IN summarized(summarize_with_hf(item_text(p, item), c, client, outcome, t))

on_provider_error_mut(c) == [raised |-> TRUE, value |-> <<>>, cache |-> c]

\* `except Exception as e: ... return []` of every adapter
\* (api_integrations.py:389-391, 414-416, 448-450, 473-475).
on_provider_error(c) == [raised |-> FALSE, value |-> <<>>, cache |-> c]

\* The body of an adapter once its credentials are known to be set: the
\* outbound call has answered with resp.
adapter_body(p, limit, resp, c, client, outcome, t) ==
    IF resp.kind \in FailKinds
    THEN on_provider_error(c)
    ELSE LET returned_list(m) ==
                 IF m.raised
                 THEN on_provider_error(m.cache)
                 ELSE [raised |-> FALSE, value |-> m.value, cache |-> m.cache]
         IN returned_list(map_items(p, Take(resp.items, limit), c, client, outcome, t))

fetch_youtube_trends(resp, c, client, outcome, t) ==
    adapter_body("YouTube", Len(resp.items), resp, c, client, outcome, t)

fetch_reddit_trends(resp, c, client, outcome, t) ==
    adapter_body("Reddit", Len(resp.items), resp, c, client, outcome, t)

fetch_google_trends(resp, c, client, outcome, t) ==
    adapter_body("Google", Len(resp.items), resp, c, client, outcome, t)

fetch_news_articles(resp, c, client, outcome, t) ==
    adapter_body("NewsAPI", NEWS_LIMIT, resp, c, client, outcome, t)

fetch_provider(p, resp, c, client, outcome, t) ==
    CASE p = "YouTube" -> fetch_youtube_trends(resp, c, client, outcome, t)
      [] p = "Reddit" -> fetch_reddit_trends(resp, c, client, outcome, t)
      [] p = "Google" -> fetch_google_trends(resp, c, client, outcome, t)
      [] p = "NewsAPI" -> fetch_news_articles(resp, c, client, outcome, t)

\* What a provider's API can answer, given how many items the other providers
\* of this execution have answered with already.
ProviderResponses(p, room) ==
    {ProviderFailure(k) : k \in FailKinds}
    \cup {ProviderAnswer(items) :
            items \in SeqsUpTo(RawItems,
                IF p \in {"YouTube", "Reddit"} /\ PROVIDER_TOP_N < room
                THEN PROVIDER_TOP_N ELSE room)}

next_delay_constant(d) == d

\* api_integrations.py:136 _delay *= backoff
next_delay(d) == d * RETRY_BACKOFF

retry_with_backoff_once_more(tries_left, raised) ==
    IF ~raised THEN "return"
    ELSE IF tries_left > 0 THEN "retry"
    ELSE "propagate"

\* retry_with_backoff's loop (api_integrations.py:128-137): an attempt that
\* raised is repeated while _tries > 1; the last attempt's exception propagates.
retry_with_backoff(tries_left, raised) ==
    IF ~raised THEN "return"
    ELSE IF tries_left > 1 THEN "retry"
    ELSE "propagate"

credential_missing_ignored(p, creds) == FALSE

\* The first test of every adapter (api_integrations.py:372, 397, 426, 456):
\* `if not YOUTUBE_API_KEY: ... return []` and the like.
credential_missing(p, creds) == p \notin creds

combine_trends_mut(tr) ==
    tr["Reddit"] \o tr["YouTube"] \o tr["Google"] \o tr["NewsAPI"]

\* api_integrations.py:494-500: all_trends.extend(...) four times.
combine_trends(tr) ==
    tr["YouTube"] \o tr["Reddit"] \o tr["Google"] \o tr["NewsAPI"]

(***************************************************************************)
(* fetch_trending_topics, one step per outbound call issued and answered   *)
(***************************************************************************)
ProviderIndex(p) == CHOOSE i \in 1..Len(ProviderOrder) : ProviderOrder[i] = p

NoTrends == [p \in Providers |-> <<>>]
NoCalls == [p \in Providers |-> 0]

RECURSIVE SumLen(_, _)
SumLen(f, S) ==
    IF S = {} THEN 0
    ELSE LET x == CHOOSE y \in S : TRUE IN Len(f[x]) + SumLen(f, S \ {x})

\* api_integrations.py:482-485: the call begins; an empty query returns [].
FetchBegin(q) ==
    /\ fpc \in {0, 6}
    /\ fquery' = q
    /\ inflight' = {}
    /\ ftries' = RETRY_TRIES
    /\ failed' = {}
    /\ returned' = NoTrends
    /\ trends' = NoTrends
    /\ fcalls' = NoCalls
    /\ all_trends' = <<>>
    /\ fpc' = IF q = "" THEN 6 ELSE 1
    /\ UNCHANGED <<now, hfVars>>
    /\ UNCHANGED outsideFetch

\* api_integrations.py:488-491: the next adapter is called.  With a credential
\* missing it returns [] at once (372-374, 397-399, 426-428, 456-458);
\* otherwise its outbound request is issued.
StartFetch(p) ==
    /\ fpc = ProviderIndex(p)
    /\ p \notin inflight
    /\ IF ~credential_missing(p, credentials)
       THEN /\ inflight' = inflight \cup {p}
            /\ fcalls' = [fcalls EXCEPT ![p] = @ + 1]
            /\ UNCHANGED <<fpc, trends>>
       ELSE /\ trends' = [trends EXCEPT ![p] = <<>>]
            /\ fpc' = fpc + 1
            /\ UNCHANGED <<inflight, fcalls>>
    /\ ftries' = RETRY_TRIES
    /\ UNCHANGED <<now, hfVars, fquery, failed, returned, all_trends>>
    /\ UNCHANGED outsideFetch

\* The outbound request of p is answered (or times out) and the adapter runs
\* to its return; retry_with_backoff repeats it if it raised.
FinishFetch(p) ==
    /\ p \in inflight
    /\ \E resp \in ProviderResponses(p, MaxTotalItems - SumLen(returned, Providers)) :
         LET out == fetch_provider(p, resp, summary_cache, inference_summary, hf_outcome, now)
             next == retry_with_backoff(ftries, out.raised)
         IN /\ summary_cache' = out.cache
            /\ IF next = "retry"
               THEN /\ ftries' = ftries - 1
                    /\ fcalls' = [fcalls EXCEPT ![p] = @ + 1]
                    /\ UNCHANGED <<inflight, fpc, trends, failed, returned>>
               ELSE /\ inflight' = inflight \ {p}
                    /\ failed' = IF resp.kind \in FailKinds THEN failed \cup {p} ELSE failed
                    /\ returned' = [returned EXCEPT ![p] = resp.items]
                    /\ trends' = [trends EXCEPT ![p] = out.value]
                    /\ fpc' = IF next = "propagate" THEN 7 ELSE fpc + 1
                    /\ UNCHANGED <<ftries, fcalls>>
    /\ UNCHANGED <<now, inference_summary, hf_outcome, credentials, fquery, all_trends>>
    /\ UNCHANGED outsideFetch

\* api_integrations.py:494-500
CombineTrends ==
    /\ fpc = 5
    /\ all_trends' = combine_trends(trends)
    /\ fpc' = 6
    /\ UNCHANGED <<now, hfVars, fquery, inflight, ftries, failed, returned, trends, fcalls>>
    /\ UNCHANGED outsideFetch

\* The Enrichment Service starts or stops failing.
ServiceChanges ==
    /\ fpc \in {0, 6}
    /\ \E o \in {HFRaise, HFStr("S1")} : o # hf_outcome /\ hf_outcome' = o
    /\ UNCHANGED <<now, inference_summary, summary_cache, credentials, fetchVars>>
    /\ UNCHANGED outsideFetch

(***************************************************************************)
(* The session store (app.py:47-48, 200-236, 602-619)                      *)
(***************************************************************************)
SessionIds == {"s1"}

\* app.py:217, the turn every new session starts with.
SystemTurn == [role |-> "system", content |-> "You are Kachifo"]

Turn(role, content) == [role |-> role, content |-> content]

EmptyStore == [x \in {} |-> [history |-> <<>>, last_updated |-> 0]]

drop_expired_keeps_all(store, t) == store

\* app.py:206-211: every session idle for more than 24 hours is dropped.
drop_expired(store, t) ==
    [k \in {x \in DOMAIN store : ~(t - store[x].last_updated > SESSION_TTL)} |-> store[k]]

get_conversation_history_unseeded(store, session_id, t) ==
    LET kept == drop_expired(store, t)
    IN [k \in DOMAIN kept \cup {session_id} |->
           IF k = session_id
           THEN (IF k \in DOMAIN kept
                 THEN [kept[k] EXCEPT !.last_updated = t]
                 ELSE [history |-> <<>>, last_updated |-> t])
           ELSE kept[k]]

\* get_conversation_history(session_id) at time t: the store afterwards; the
\* history returned is that of session_id in it.
get_conversation_history(store, session_id, t) ==
    LET kept == drop_expired(store, t)
    IN [k \in DOMAIN kept \cup {session_id} |->
           IF k = session_id
           THEN (IF k \in DOMAIN kept
                 THEN [kept[k] EXCEPT !.last_updated = t]
                 ELSE [history |-> <<SystemTurn>>, last_updated |-> t])
           ELSE kept[k]]

trim_history_drops_system(history) ==
    IF Len(history) > MAX_HISTORY THEN Tail(history) ELSE history

trim_history_drops_newest(history) ==
    IF Len(history) > MAX_HISTORY THEN SubSeq(history, 1, Len(history) - 1) ELSE history

\* app.py:232-233: if len(history) > 11: history.pop(1)
trim_history(history) ==
    IF Len(history) > MAX_HISTORY
    THEN <<history[1]>> \o SubSeq(history, 3, Len(history))
    ELSE history

\* update_conversation_history(session_id, role, content) at time t.
update_conversation_history(store, session_id, role, content, t) ==
    LET got == get_conversation_history(store, session_id, t)
        history == trim_history(Append(got[session_id].history, Turn(role, content)))
    IN [got EXCEPT ![session_id] = [history |-> history, last_updated |-> t]]

clear_history_keeps_time(store, session_id, t) ==
    IF session_id \notin DOMAIN store
    THEN store
    ELSE [store EXCEPT ![session_id].history = <<@[1]>>]

\* clear_history (app.py:609-617) for a session id at time t.
clear_history(store, session_id, t) ==
    IF session_id \notin DOMAIN store
    THEN store
    ELSE [store EXCEPT ![session_id] =
             [history |-> <<store[session_id].history[1]>>, last_updated |-> t]]

NoClear == [session |-> None, known |-> FALSE, before |-> <<>>]

NoAccess == [session |-> None, idle |-> FALSE, held |-> 0, history |-> <<>>]

SessionsEmpty ==
    /\ conversation_store = EmptyStore
    /\ appended = [s \in SessionIds |-> 0]
    /\ lastTurn = SystemTurn
    /\ last_access = NoAccess
    /\ last_clear = NoClear

(***************************************************************************)
(* fetch_trending_topics as one call: resps gives, per provider, the       *)
(* answer to its outbound request.                                         *)
(***************************************************************************)
call_adapter(p, resps, creds, c, client, outcome, t) ==
    IF credential_missing(p, creds)
    THEN [value |-> <<>>, cache |-> c, calls |-> 0, raised |-> FALSE]
    ELSE LET called(out) ==
                 [value |-> out.value, cache |-> out.cache, calls |-> 1,
                  raised |-> out.raised]
         IN called(fetch_provider(p, resps[p], c, client, outcome, t))

fetch_trending_topics(query, resps, creds, c, client, outcome, t) ==
    IF query = ""
    THEN [value |-> <<>>, cache |-> c, calls |-> 0, raised |-> FALSE]
    ELSE LET \* lines 494-500, once the four calls have returned
             combined(youtube, reddit, google, news) ==
                 [value |-> combine_trends(
                      [p \in Providers |->
                          CASE p = "YouTube" -> youtube.value
                            [] p = "Reddit" -> reddit.value
                            [] p = "Google" -> google.value
                            [] p = "NewsAPI" -> news.value]),
                  cache |-> news.cache,
                  calls |-> youtube.calls + reddit.calls + google.calls + news.calls,
                  raised |-> youtube.raised \/ reddit.raised \/ google.raised
                             \/ news.raised]
             \* line 490
             after_google(youtube, reddit, google) ==
                 combined(youtube, reddit, google,
                          call_adapter("NewsAPI", resps, creds, google.cache,
                                       client, outcome, t))
             \* line 489
             after_reddit(youtube, reddit) ==
                 after_google(youtube, reddit,
                              call_adapter("Google", resps, creds, reddit.cache,
                                           client, outcome, t))
             \* line 488
             after_youtube(youtube) ==
                 after_reddit(youtube,
                              call_adapter("Reddit", resps, creds, youtube.cache,
                                           client, outcome, t))
         IN \* line 487
            after_youtube(call_adapter("YouTube", resps, creds, c, client, outcome, t))

(***************************************************************************)
(* app.py: the Flask cache, rate_limit, sanitize_input, /search            *)
(***************************************************************************)
\* flask_caching SimpleCache (app.py:40-42): cache.get returns the value of a
\* key only before its timeout has elapsed.
EmptyFlaskCache == [x \in {} |-> [value |-> 0, expires |-> 0]]

RateKey(client_ip) == <<"rate_limit", client_ip>>

rate_limit_exceeded_below_zero(remaining_requests) == remaining_requests < 0

\* app.py:110 elif remaining_requests <= 0
rate_limit_exceeded(remaining_requests) == remaining_requests <= 0

rate_limit_counts_rejected(c, client_ip, t) ==
    IF ~CacheLive(c, RateKey(client_ip), t)
    THEN [admitted |-> TRUE,
          cache |-> CachePut(c, RateKey(client_ip), RATE_LIMIT - 1, t, RATE_WINDOW)]
    ELSE [admitted |-> ~rate_limit_exceeded(c[RateKey(client_ip)].value),
          cache |-> CachePut(c, RateKey(client_ip), c[RateKey(client_ip)].value - 1,
                             t, RATE_WINDOW)]

\* The wrapper of rate_limit up to its decision (app.py:101-115): whether the
\* wrapped function is called, and the cache afterwards.
rate_limit(c, client_ip, t) ==
    IF ~CacheLive(c, RateKey(client_ip), t)
    THEN [admitted |-> TRUE,
          cache |-> CachePut(CachePut(c, RateKey(client_ip), RATE_LIMIT, t, RATE_WINDOW),
                             RateKey(client_ip), RATE_LIMIT - 1, t, RATE_WINDOW)]
    ELSE IF rate_limit_exceeded(c[RateKey(client_ip)].value)
    THEN [admitted |-> FALSE, cache |-> c]
    ELSE [admitted |-> TRUE,
          cache |-> CachePut(c, RateKey(client_ip), c[RateKey(client_ip)].value - 1,
                             t, RATE_WINDOW)]

\* Characters of a user's text: \w matches letters, digits and the underscore,
\* \s matches white space.  A whole word of letters and digits of a longer
\* text stands as one character.
WordRuns == {"thanks", "latest", "news", "analyze", "trending", "q1"}
WordChars == {"a", "b", "1", "_"} \cup WordRuns
SpaceChars == {" "}
Chars == WordChars \cup SpaceChars \cup {"!"}

RECURSIVE Strip(_)
Strip(cs) ==
    IF cs = <<>> THEN cs
    ELSE IF Head(cs) \in SpaceChars THEN Strip(Tail(cs))
    ELSE IF cs[Len(cs)] \in SpaceChars THEN Strip(SubSeq(cs, 1, Len(cs) - 1))
    ELSE cs

RECURSIVE Join(_)
Join(cs) == IF cs = <<>> THEN "" ELSE Head(cs) \o Join(Tail(cs))

\* sanitize_input(query) for a text given as its characters (app.py:119-126):
\* re.sub(r"[^\w\s]", "", query).strip()
sanitize_input(query) ==
    LET Kept(ch) == ch \in WordChars \cup SpaceChars
    IN Join(Strip(SelectSeq(query, Kept)))

SearchKey(query) == <<"search_query", query>>

Personalized(query, general_summary) ==
    "Here's what I found about '" \o query \o "':\n\n" \o general_summary

\* app.py:485-499: the loop over the fetched results.
RECURSIVE process_results(_, _, _, _, _)
process_results(results, c, client, outcome, t) ==
    IF results = <<>>
    THEN [processed |-> <<>>, summaries |-> <<>>, cache |-> c, raised |-> FALSE]
    ELSE LET result == Head(results)
             appended_to(s, rest) ==
                 [processed |-> <<[source |-> result.source, title |-> result.title,
                                   summary |-> s.summary, url |-> result.url]>>
                                \o rest.processed,
                  summaries |-> <<s.summary>> \o rest.summaries,
                  cache |-> rest.cache,
                  raised |-> s.raised \/ rest.raised]
             summarized(s) ==
                 appended_to(s, process_results(Tail(results), s.cache, client,
                                                outcome, t))
         IN summarized(summarize_with_hf(result.title \o " " \o result.summary,
                                         c, client, outcome, t))

search_cache_key_ignores_query(query) == <<"search_query", "">>

\* app.py:465 cache_key = f"search_query:{query}"
search_cache_key(query) == SearchKey(query)

\* process_search_query(query, session_id) at time t, with the module state it
\* reads and writes passed in: fc the Flask cache, store the conversation
\* store, sc the summary cache.  resps are the providers' answers should they
\* be asked.  The result carries the response, the state afterwards and the
\* number of outbound provider requests made.
process_search_query(query, session_id, fc, store, sc, resps, creds, client, outcome, t) ==
    IF CacheLive(fc, search_cache_key(query), t)
    THEN LET cached_results == fc[search_cache_key(query)].value
         IN [response |-> cached_results,
             cache |-> fc,
             store |-> IF session_id # None
                       THEN update_conversation_history(store, session_id, "assistant",
                                Personalized(query, cached_results.general_summary), t)
                       ELSE store,
             summary_cache |-> sc,
             fetches |-> 0,
             raised |-> FALSE]
    ELSE LET \* an exception of a callee leaves the function before line 517
             propagate(sc_after, calls) ==
                 [response |-> None, cache |-> fc, store |-> store,
                  summary_cache |-> sc_after, fetches |-> calls, raised |-> TRUE]
             \* lines 502-523
             respond(results, done, general) ==
                 IF general.raised THEN propagate(done.cache, results.calls) ELSE
                 LET personalized_summary == Personalized(query, general.summary)
                     final_response == [query |-> query, results |-> done.processed,
                                        general_summary |-> personalized_summary,
                                        session_id |-> session_id, type |-> "query"]
                 IN [response |-> final_response,
                     cache |-> CachePut(fc, search_cache_key(query), final_response,
                                        t, SEARCH_TTL),
                     store |-> IF session_id # None
                               THEN update_conversation_history(store, session_id,
                                        "assistant", personalized_summary, t)
                               ELSE store,
                     summary_cache |-> done.cache,
                     fetches |-> results.calls,
                     raised |-> FALSE]
             \* line 500
             processed(results, done) ==
                 IF done.raised THEN propagate(done.cache, results.calls) ELSE
                 respond(results, done,
                         generate_general_summary(done.summaries, client, outcome))
             \* lines 485-499
             fetched(results) ==
                 IF results.raised THEN propagate(results.cache, results.calls) ELSE
                 processed(results,
                           process_results(results.value, results.cache, client,
                                           outcome, t))
         IN \* line 483
            fetched(fetch_trending_topics(query, resps, creds, sc, client, outcome, t))

\* search_trends (app.py:527-546) for a query given as its characters: 400
\* without a query, else process_search_query on the sanitized query.
search_trends(q, session_id, fc, store, sc, resps, creds, client, outcome, t) ==
    IF q = <<>>
    THEN [status |-> 400, cache |-> fc, store |-> store, summary_cache |-> sc,
          fetches |-> 0, ran |-> TRUE]
    ELSE LET answered(r) ==
                 [status |-> IF r.raised THEN 500 ELSE 200, cache |-> r.cache,
                  store |-> r.store, summary_cache |-> r.summary_cache,
                  fetches |-> r.fetches, ran |-> TRUE]
         IN answered(process_search_query(sanitize_input(q), session_id, fc, store,
                                          sc, resps, creds, client, outcome, t))

\* /search behind @rate_limit (app.py:525-527, 96-117): the 429 answer is
\* returned without calling search_trends.
search_endpoint(client_ip, q, session_id, fc, store, sc, resps, creds, client, outcome, t) ==
    LET limit == rate_limit(fc, client_ip, t)
    IN IF ~limit.admitted
       THEN [status |-> 429, cache |-> limit.cache, store |-> store,
             summary_cache |-> sc, fetches |-> 0, ran |-> FALSE]
       ELSE search_trends(q, session_id, limit.cache, store, sc, resps, creds,
                          client, outcome, t)

(***************************************************************************)
(* /interact (app.py:128-198, 249-460) and the functions of                *)
(* api_integrations.py it reaches (lines 243-366, 502-611)                 *)
(***************************************************************************)
\* TTLCache(ttl=300) of perform_web_search (api_integrations.py:21).
WEB_SEARCH_CACHE_TTL == 300
\* TTLCache(ttl=1800) of analyze_content (api_integrations.py:22).
ANALYSIS_CACHE_TTL == 1800
\* cache.set(..., timeout=300) of process_web_search (app.py:383).
WEB_RESPONSE_TTL == 300
\* cache.set(..., timeout=1800) of process_analysis (app.py:454).
ANALYSIS_RESPONSE_TTL == 1800

\* A user's input is given by its words in lower case (the patterns of
\* classify_input_type ignore case); its text joins them with single spaces.
RECURSIVE JoinWords(_)
JoinWords(ws) ==
    IF ws = <<>> THEN ""
    ELSE IF Len(ws) = 1 THEN ws[1]
    ELSE ws[1] \o " " \o JoinWords(Tail(ws))

\* re.search(r'\b(a|b c|...)\b', user_input): some alternative occurs as
\* consecutive words of the input.
HasPhrase(ws, phrases) ==
    \E i \in 1..Len(ws) : \E j \in i..Len(ws) : SubSeq(ws, i, j) \in phrases

\* app.py:139-146
followup_patterns ==
    {<<"more">>, <<"tell", "me", "more">>, <<"continue">>, <<"elaborate">>,
     <<"explain", "further">>, <<"can", "you", "explain">>, <<"what", "about">>,
     <<"why">>, <<"how">>, <<"what">>, <<"when">>, <<"where">>, <<"who">>,
     <<"thanks">>, <<"thank", "you">>, <<"got", "it">>,
     <<"and">>, <<"also">>, <<"additionally">>, <<"moreover">>, <<"furthermore">>,
     <<"besides">>,
     <<"details">>, <<"specifics">>, <<"examples">>, <<"instances">>, <<"cases">>,
     <<"compared", "to">>, <<"versus">>, <<"vs">>, <<"difference", "between">>}

\* app.py:158-161
query_pattern ==
    {<<"search">>, <<"find">>, <<"look", "up">>, <<"what", "is">>,
     <<"tell", "me", "about">>, <<"trending">>, <<"give", "me">>, <<"show", "me">>,
     <<"discover">>, <<"explore">>, <<"list">>, <<"popular">>, <<"top">>, <<"best">>}

\* app.py:164-167
analysis_pattern ==
    {<<"analyze">>, <<"analysis">>, <<"evaluate">>, <<"review">>, <<"compare">>,
     <<"summarize">>, <<"insights">>, <<"opinion">>, <<"thoughts", "on">>,
     <<"perspective">>, <<"breakdown">>, <<"assessment">>, <<"critique">>,
     <<"examine">>, <<"study">>}

\* app.py:170-173
web_search_pattern ==
    {<<"web", "search">>, <<"google">>, <<"search", "online">>, <<"current">>,
     <<"latest">>, <<"today">>, <<"live">>, <<"news">>, <<"recent">>, <<"internet">>,
     <<"web">>, <<"online">>, <<"right", "now">>, <<"up", "to", "date">>,
     <<"real", "time">>}

\* app.py:176-181, the four patterns together
topic_patterns ==
    {<<"technology">>, <<"tech">>, <<"ai">>, <<"artificial", "intelligence">>,
     <<"programming">>, <<"software">>, <<"hardware">>, <<"digital">>, <<"computer">>,
     <<"app">>, <<"application">>,
     <<"business">>, <<"finance">>, <<"company">>, <<"market">>, <<"stock">>,
     <<"investment">>, <<"economy">>, <<"industry">>, <<"startup">>,
     <<"entrepreneur">>,
     <<"health">>, <<"medical">>, <<"wellness">>, <<"nutrition">>, <<"fitness">>,
     <<"diet">>, <<"exercise">>, <<"doctor">>, <<"hospital">>, <<"treatment">>,
     <<"therapy">>,
     <<"movie">>, <<"film">>, <<"tv">>, <<"television">>, <<"show">>, <<"series">>,
     <<"music">>, <<"song">>, <<"artist">>, <<"celebrity">>, <<"entertainment">>}

\* What the text of the turn before the user's says to lines 148-153: "query"
\* if it holds 'query' or 'search', else "analysis" if it holds 'analyze' or
\* 'analysis', else "web_search" if it holds 'web', 'internet' or 'online',
\* else "none".
PrevKinds == {"none", "query", "analysis", "web_search"}

\* The system turn holds none of these words; the text of any other turn came
\* from a user or a service and may hold any of them.
prev_query_kind(conversation_history, said) ==
    IF Len(conversation_history) > 1
       /\ conversation_history[Len(conversation_history) - 1] # SystemTurn
    THEN said
    ELSE "none"

classify_input_type_web_first(ws, conversation_history, said) ==
    IF ws = <<>> THEN "conversation"
    ELSE IF /\ Len(conversation_history) > 1
            /\ HasPhrase(ws, followup_patterns)
            /\ prev_query_kind(conversation_history, said) # "none"
    THEN prev_query_kind(conversation_history, said)
    ELSE IF HasPhrase(ws, web_search_pattern) THEN "web_search"
    ELSE IF HasPhrase(ws, topic_patterns) THEN "query"
    ELSE IF HasPhrase(ws, analysis_pattern) THEN "analysis"
    ELSE IF HasPhrase(ws, query_pattern) THEN "query"
    ELSE "conversation"

\* classify_input_type(user_input, conversation_history), app.py:128-198.
classify_input_type(ws, conversation_history, said) ==
    IF ws = <<>> THEN "conversation"
    ELSE IF /\ Len(conversation_history) > 1
            /\ HasPhrase(ws, followup_patterns)
            /\ prev_query_kind(conversation_history, said) # "none"
    THEN prev_query_kind(conversation_history, said)
    ELSE IF HasPhrase(ws, topic_patterns) THEN "query"
    ELSE IF HasPhrase(ws, web_search_pattern) THEN "web_search"
    ELSE IF HasPhrase(ws, analysis_pattern) THEN "analysis"
    ELSE IF HasPhrase(ws, query_pattern) THEN "query"
    ELSE "conversation"

\* Models initialize_inference_clients can leave in HF_API_BOT_MODEL
\* (api_integrations.py:58-85), None when no model could be initialized.
BotModels == {"mistralai/Mistral-7B-Instruct-v0.1", "facebook/opt-350m", None}

is_mistral(model) == model = "mistralai/Mistral-7B-Instruct-v0.1"

\* What a call of the conversational client does: it raises, or it answers a
\* text; personal says whether the text holds "kachifo" or starts with "I am "
\* or "I'm " (api_integrations.py:360).
BotRaises == [raises |-> TRUE, text |-> "", personal |-> FALSE]
BotSays(text, personal) == [raises |-> FALSE, text |-> text, personal |-> personal]

\* The client's answers to chat_completion and to text_generation.
BotReplies ==
    {[chat |-> BotSays("R1", FALSE), gen |-> BotSays("R1", FALSE)],
     [chat |-> BotRaises, gen |-> BotSays("I'm Kachifo.", TRUE)],
     [chat |-> BotSays("", FALSE), gen |-> BotRaises]}

\* api_integrations.py:278-279 leaves the turn as it is.
prepend_system_to_first_user_copy(conversation_history) == conversation_history

\* api_integrations.py:266-279: mistral_messages holds the dicts of the
\* history that are not system messages, so the assignment to
\* mistral_messages[0]['content'] rewrites that turn of the history itself.
prepend_system_to_first_user(conversation_history) ==
    LET idx == DOMAIN conversation_history
        systems == {i \in idx : conversation_history[i].role = "system"}
        others == idx \ systems
    IN IF systems = {} \/ others = {} THEN conversation_history
       ELSE LET last_system == CHOOSE i \in systems : \A j \in systems : j <= i
                first == CHOOSE i \in others : \A j \in others : i <= j
                system_content == conversation_history[last_system].content
            IN IF system_content # "" /\ conversation_history[first].role = "user"
               THEN [conversation_history EXCEPT ![first].content =
                        system_content \o "\n\nUser: " \o @]
               ELSE conversation_history

\* api_integrations.py:364-366
conversation_on_error ==
    "I'm having trouble generating a response right now. Please try again later."

\* generate_conversational_response(user_input, conversation_history): the
\* text returned, and the list the caller passed as it is afterwards.
generate_conversational_response(user_input, conversation_history, model, reply) ==
    IF user_input = ""
    THEN [text |-> "I didn't receive any input. How can I help you today?",
          history |-> conversation_history]
    ELSE IF model = None
    THEN [text |-> "Conversational service unavailable at the moment.",
          history |-> conversation_history]
    ELSE LET \* lines 261-262; an empty list is replaced by a local one
             with_input ==
                 IF conversation_history = <<>> THEN conversation_history
                 ELSE IF conversation_history[Len(conversation_history)]
                            # Turn("user", user_input)
                 THEN Append(conversation_history, Turn("user", user_input))
                 ELSE conversation_history
             history == IF is_mistral(model)
                        THEN prepend_system_to_first_user(with_input)
                        ELSE with_input
             \* lines 281-322 for Mistral, 340-352 for the other models
             answer == IF is_mistral(model) /\ ~reply.chat.raises THEN reply.chat
                       ELSE reply.gen
             \* lines 354-362
             content == IF answer.raises \/ answer.text = "" THEN conversation_on_error
                        ELSE IF answer.personal THEN answer.text
                        ELSE "As Kachifo, " \o answer.text
         IN [text |-> content, history |-> history]

\* What the Google Custom Search request of perform_web_search found; the
\* empty list stands for a failed request, missing keys or no item.
WebWorlds == {<<>>, <<[title |-> "wt1", link |-> "wl1", snippet |-> "ws1"]>>}

WebKey(query) == <<"web", query>>

\* api_integrations.py:536-542
no_search_results(query) ==
    <<[title |-> "No search results found", link |-> "#",
       snippet |-> "Unable to find web search results for '" \o query
                   \o "'. Please try a different query or check your Google API configuration."]>>

perform_web_search_caches_results_only(query, wsc, found, t) ==
    IF CacheLive(wsc, WebKey(query), t)
    THEN [value |-> wsc[WebKey(query)].value, cache |-> wsc, requests |-> 0]
    ELSE IF found = <<>>
    THEN [value |-> no_search_results(query), cache |-> wsc, requests |-> 1]
    ELSE [value |-> found,
          cache |-> CachePut(wsc, WebKey(query), found, t, WEB_SEARCH_CACHE_TTL),
          requests |-> 1]

\* perform_web_search(query) at time t with web_search_cache wsc, the Google
\* keys being set (api_integrations.py:504-545); requests counts the outbound
\* requests of the call.
perform_web_search(query, wsc, found, t) ==
    IF CacheLive(wsc, WebKey(query), t)
    THEN [value |-> wsc[WebKey(query)].value, cache |-> wsc, requests |-> 0]
    ELSE LET results == IF found = <<>> THEN no_search_results(query) ELSE found
         IN [value |-> results,
             cache |-> CachePut(wsc, WebKey(query), results, t, WEB_SEARCH_CACHE_TTL),
             requests |-> 1]

AnalysisKey(topic, content_list) == <<"analysis", topic, content_list>>

\* analyze_content(topic, content_list) at time t with analysis_cache ac.
analyze_content(topic, content_list, ac, model, reply, t) ==
    IF content_list = <<>>
    THEN [text |-> "I don't have any information to analyze about '" \o topic \o "'.",
          cache |-> ac]
    ELSE IF CacheLive(ac, AnalysisKey(topic, content_list), t)
    THEN [text |-> ac[AnalysisKey(topic, content_list)].value, cache |-> ac]
    ELSE IF model = None
    THEN [text |-> "Analysis service is unavailable at the moment. I can't provide an analysis for '"
                   \o topic \o "'.",
          cache |-> ac]
    ELSE IF reply.gen.raises
    THEN [text |-> "I encountered an issue while analyzing information about '"
                   \o topic \o "'. Please try again later.",
          cache |-> ac]
    ELSE LET analysis ==
                 IF reply.gen.text = ""
                 THEN "I couldn't generate a meaningful analysis about '" \o topic
                      \o "' with the provided information."
                 ELSE reply.gen.text
         IN [text |-> analysis,
             cache |-> CachePut(ac, AnalysisKey(topic, content_list), analysis, t,
                                ANALYSIS_CACHE_TTL)]

Snippets(search_results) == [i \in DOMAIN search_results |-> search_results[i].snippet]

\* The module state a request handler reads and writes.
ModuleState(fc, store, sc, wsc, ac) ==
    [cache |-> fc, store |-> store, summary_cache |-> sc, web_search_cache |-> wsc,
     analysis_cache |-> ac]

WebResponseKey(query) == <<"web_search", query>>

\* app.py:393
web_search_error(query) ==
    "I had trouble searching the web for '" \o query
    \o "'. Please try a different query or try again later."

\* process_web_search(query, session_id) at time t in module state m; w is
\* what the services answer.  w.fault: an exception leaves the first call of
\* the try block (the except clause of line 391 is there for it).
process_web_search(query, session_id, m, w, t) ==
    IF CacheLive(m.cache, WebResponseKey(query), t)
    THEN [status |-> 200, type |-> "web_search", raised |-> FALSE,
          body_session_id |-> m.cache[WebResponseKey(query)].value.session_id,
          m |-> [m EXCEPT !.store =
                    IF session_id # None
                    THEN update_conversation_history(m.store, session_id, "assistant",
                             m.cache[WebResponseKey(query)].value.summary, t)
                    ELSE @]]
    ELSE IF w.fault
    THEN [status |-> 500, type |-> "error", raised |-> FALSE,
          body_session_id |-> session_id,
          m |-> [m EXCEPT !.store =
                    IF session_id # None
                    THEN update_conversation_history(m.store, session_id, "assistant",
                                                     web_search_error(query), t)
                    ELSE @]]
    ELSE LET respond(searched, general) ==
                 LET response_text == "Here's what I found online about '" \o query
                                      \o "':\n\n" \o general.summary \o "\n\n"
                     final_response ==
                         [query |-> query,
                          results |-> [i \in DOMAIN searched.value |->
                                          [title |-> searched.value[i].title,
                                           url |-> searched.value[i].link,
                                           snippet |-> searched.value[i].snippet]],
                          summary |-> response_text, session_id |-> session_id,
                          type |-> "web_search"]
                 IN [status |-> 200, type |-> "web_search", raised |-> FALSE,
                     body_session_id |-> session_id,
                     m |-> [m EXCEPT
                              !.web_search_cache = searched.cache,
                              !.cache = CachePut(@, WebResponseKey(query), final_response,
                                                 t, WEB_RESPONSE_TTL),
                              !.store =
                                  IF session_id # None
                                  THEN update_conversation_history(@, session_id,
                                           "assistant", response_text, t)
                                  ELSE @]]
             searched_web(searched) ==
                 respond(searched,
                         generate_general_summary(Snippets(searched.value), w.client,
                                                  w.outcome))
         IN searched_web(perform_web_search(query, m.web_search_cache, w.found, t))

AnalysisResponseKey(query) == <<"analysis", query>>

\* process_analysis(query, session_id) at time t in module state m.  w.fault:
\* an exception leaves fetch_trending_topics; process_analysis has no try
\* block, so it leaves process_analysis too.
\* app.py:432
no_recent_information(query) ==
    "I couldn't find any recent information to analyze about '" \o query \o "'."

process_analysis(query, session_id, m, w, t) ==
    IF CacheLive(m.cache, AnalysisResponseKey(query), t)
    THEN [status |-> 200, type |-> "analysis", raised |-> FALSE,
          body_session_id |-> m.cache[AnalysisResponseKey(query)].value.session_id,
          m |-> [m EXCEPT !.store =
                    IF session_id # None
                    THEN update_conversation_history(m.store, session_id, "assistant",
                             m.cache[AnalysisResponseKey(query)].value.analysis, t)
                    ELSE @]]
    ELSE IF w.fault
    THEN [status |-> 500, type |-> "error", raised |-> TRUE,
          body_session_id |-> session_id, m |-> m]
    ELSE LET \* lines 444-460; content is the list analyze_content was called
             \* with and search_results the list perform_web_search returned,
             \* each in a tuple that is empty when the call was not made
             respond(sc, wsc, analysed, content, search_results) ==
                 LET response_data == [query |-> query, analysis |-> analysed.text,
                                       session_id |-> session_id, type |-> "analysis"]
                 IN [status |-> 200, type |-> "analysis", raised |-> FALSE,
                     body_session_id |-> session_id,
                     analysed |-> content, search_results |-> search_results,
                     m |-> [m EXCEPT
                              !.summary_cache = sc,
                              !.web_search_cache = wsc,
                              !.analysis_cache = analysed.cache,
                              !.cache = CachePut(@, AnalysisResponseKey(query),
                                                 response_data, t, ANALYSIS_RESPONSE_TTL),
                              !.store =
                                  IF session_id # None
                                  THEN update_conversation_history(@, session_id,
                                           "assistant", analysed.text, t)
                                  ELSE @]]
             \* lines 423-432
             from_web(sc, searched) ==
                 IF searched.value # <<>>
                 THEN respond(sc, searched.cache,
                              analyze_content(query, Snippets(searched.value),
                                              m.analysis_cache, w.model, w.reply, t),
                              <<Snippets(searched.value)>>, <<searched.value>>)
                 ELSE respond(sc, searched.cache,
                              [text |-> no_recent_information(query),
                               cache |-> m.analysis_cache],
                              <<>>, <<searched.value>>)
             \* lines 433-442
             from_trends(trend_data) ==
                 LET content_to_analyze ==
                         [i \in DOMAIN trend_data.value |->
                             trend_data.value[i].title \o ": "
                             \o trend_data.value[i].summary]
                 IN respond(trend_data.cache, m.web_search_cache,
                            analyze_content(query, content_to_analyze,
                                            m.analysis_cache, w.model, w.reply, t),
                            <<content_to_analyze>>, <<>>)
             fetched(trend_data) ==
                 IF trend_data.raised
                 THEN [status |-> 500, type |-> "error", raised |-> TRUE,
                       body_session_id |-> session_id,
                       m |-> [m EXCEPT !.summary_cache = trend_data.cache]]
                 ELSE IF trend_data.value = <<>>
                 THEN from_web(trend_data.cache,
                               perform_web_search(query, m.web_search_cache, w.found, t))
                 ELSE from_trends(trend_data)
         IN fetched(fetch_trending_topics(query, w.resps, w.creds, m.summary_cache,
                                          w.client, w.outcome, t))

\* app.py:323
error_message == "I'm sorry, I encountered an issue processing your request."

\* app.py:268-272 uses the client's session id only if the store holds it.
resolve_session_id(client_session_id, store, fresh) ==
    IF client_session_id # None /\ client_session_id \in DOMAIN store
    THEN client_session_id
    ELSE fresh

\* str(uuid.uuid4()) for the n-th uuid drawn.
Uuid(n) == "uuid" \o ToString(n)

NotHandled == [status |-> 0, body_session_id |-> None, analysed |-> <<>>,
               search_results |-> <<>>, type |-> None, session_id |-> None, known |-> FALSE,
               input |-> "", before |-> <<>>, after |-> <<>>, faulted |-> FALSE,
               error |-> None, text |-> <<>>, query |-> None]

\* The characters of the text JoinWords(ws) spells.
RECURSIVE Characters(_)
Characters(ws) ==
    IF ws = <<>> THEN <<>>
    ELSE IF Len(ws) = 1 THEN <<Head(ws)>>
    ELSE <<Head(ws), " ">> \o Characters(Tail(ws))

\* interact() (app.py:249-338) at time t for the JSON body {input, session_id},
\* the input given by its words.  cookie is the browser's session['session_id'],
\* uuids the uuids drawn so far.  The result carries the state afterwards and,
\* for the claims, the history get_conversation_history returned at line 279
\* (before) and the session's history when the handler returns (after).
interact(ws, client_session_id, m, cookie, uuids, w, t) ==
    LET user_input == JoinWords(ws)
    IN IF user_input = ""
       THEN [NotHandled EXCEPT !.status = 400, !.error = "No input provided"] @@
            [m |-> m, cookie |-> cookie, uuids |-> uuids]
       ELSE
       LET known == client_session_id # None /\ client_session_id \in DOMAIN m.store
           session_id == resolve_session_id(client_session_id, m.store, Uuid(uuids + 1))
           drawn == IF known THEN uuids ELSE uuids + 1
           new_cookie == IF cookie = None THEN session_id ELSE cookie
           \* line 279
           got == get_conversation_history(m.store, session_id, t)
           before == got[session_id].history
           \* line 282
           with_user == update_conversation_history(got, session_id, "user",
                                                    user_input, t)
           conversation_history == with_user[session_id].history
           m1 == [m EXCEPT !.store = with_user]
           \* line 285
           input_type == classify_input_type(ws, conversation_history, w.said)
           done(r, faulted) ==
               [status |-> r.status, body_session_id |-> r.body_session_id,
                analysed |-> IF "analysed" \in DOMAIN r THEN r.analysed ELSE <<>>,
                search_results |-> IF "search_results" \in DOMAIN r
                                   THEN r.search_results ELSE <<>>, type |-> r.type, session_id |-> session_id,
                known |-> known, input |-> user_input, before |-> before,
                after |-> r.m.store[session_id].history, faulted |-> faulted,
                error |-> None, text |-> Characters(ws),
                \* lines 293, 297, 301: the query process_* is called with
                query |-> IF input_type \in {"web_search", "analysis", "query"}
                          THEN user_input ELSE None,
                m |-> r.m, cookie |-> new_cookie, uuids |-> drawn]
           \* lines 319-338
           failed_with(state) ==
               [status |-> 500, type |-> "error", body_session_id |-> session_id,
                m |-> [state EXCEPT !.store =
                          update_conversation_history(@, session_id, "assistant",
                                                      error_message, t)]]
           handled(r) == IF r.raised THEN done(failed_with(r.m), TRUE)
                         ELSE done(r, r.type = "error")
           \* lines 303-315: the history is the list of the store itself
           conversed(said_back) ==
               done([status |-> 200, type |-> "conversation",
                     body_session_id |-> session_id,
                     m |-> [m1 EXCEPT !.store =
                              update_conversation_history(
                                  [@ EXCEPT ![session_id].history = said_back.history],
                                  session_id, "assistant", said_back.text, t)]],
                    FALSE)
           \* line 301
           searched(r) ==
               handled([status |-> 200, type |-> "query", raised |-> r.raised,
                        body_session_id |-> IF r.raised THEN session_id
                                            ELSE r.response.session_id,
                        m |-> [m1 EXCEPT !.cache = r.cache, !.store = r.store,
                                         !.summary_cache = r.summary_cache]])
       \* w.fault in the query branch: an exception leaves fetch_trending_topics,
       \* and so process_search_query, before anything is cached or recorded.
       IN CASE input_type = "web_search" ->
                 handled(process_web_search(user_input, session_id, m1, w, t))
            [] input_type = "analysis" ->
                 handled(process_analysis(user_input, session_id, m1, w, t))
            [] input_type = "query" ->
                 IF w.fault /\ ~CacheLive(m1.cache, search_cache_key(user_input), t)
                 THEN handled([status |-> 500, type |-> "error", raised |-> TRUE,
                               body_session_id |-> session_id,
                               m |-> m1])
                 ELSE searched(process_search_query(user_input, session_id, m1.cache,
                                   m1.store, m1.summary_cache, w.resps, w.creds,
                                   w.client, w.outcome, t))
            [] OTHER ->
                 conversed(generate_conversational_response(user_input,
                               conversation_history, w.model, w.reply))

\* /interact behind @rate_limit (app.py:249-254): the 429 answer is returned
\* without calling interact; interact counts the request first.
interact_endpoint(client_ip, has_data, ws, client_session_id, m, cookie, uuids, count, w, t) ==
    LET limit == rate_limit(m.cache, client_ip, t)
        admitted_m == [m EXCEPT !.cache = limit.cache]
        counted(r) == r @@ [count |-> count + 1, ran |-> TRUE]
    IN IF ~limit.admitted
       THEN [NotHandled EXCEPT
                !.status = 429,
                !.error = "Rate limit exceeded. Please try again later."] @@
            [m |-> admitted_m, cookie |-> cookie, uuids |-> uuids, count |-> count,
             ran |-> FALSE]
       ELSE IF ~has_data
       THEN [NotHandled EXCEPT !.status = 400, !.error = "No data provided"] @@
            [m |-> admitted_m, cookie |-> cookie, uuids |-> uuids, count |-> count + 1,
             ran |-> TRUE]
       ELSE counted(interact(ws, client_session_id, admitted_m, cookie, uuids, w, t))

Clients == {"ip1", "ip2"}

NoSearch == [called |-> FALSE, at |-> 0, results |-> <<>>]

NoRequest == [client |-> None, status |-> 0, fetches |-> 0, ran |-> FALSE]

AppIdle ==
    /\ cache = EmptyFlaskCache
    /\ daily_usage_count = 0
    /\ search_first = [q \in {} |-> NoSearch]
    /\ last_search = [query |-> None, second |-> FALSE, fetches |-> 0, results |-> <<>>,
                      summary |-> None, raised |-> FALSE, all_failed |-> FALSE]
    /\ admitted = [c \in Clients |-> 0]
    /\ last_request = NoRequest
    /\ quota_window = [c \in Clients |-> [at |-> 0, requests |-> 0, last_admitted |-> -1,
                                          rejected |-> 0, rejected_before |-> 0]]

\* The tries the decorators of api_integrations.py are given (lines 166, 503).
RetryConfigs == {RETRY_TRIES, WEB_SEARCH_TRIES}

\* A function decorated with retry_with_backoff(Exception, tries), not called yet.
Decorated(tries) ==
    /\ retry_config = tries
    /\ retry_pc = "idle"
    /\ cur_tries = tries
    /\ delay = RETRY_DELAY
    /\ attempt_log = <<>>
    /\ retry_result = None
    /\ retry_raised = None
    /\ wrapper_calls = 0

RetryIdle == Decorated(RETRY_TRIES)

\* The threads of the server that handle requests.
Workers == {"w1", "w2"}

WorkersIdle ==
    /\ worker_pc = [w \in Workers |-> "idle"]
    /\ worker_remaining = [w \in Workers |-> None]
    /\ requests_started = 0

\* No perform_web_search call yet; -1 stands for no failed request.
NoWebSearch == [query |-> None, found |-> <<>>, value |-> <<>>, requests |-> 0, at |-> 0,
                before |-> -1, failed_at |-> [q \in Queries |-> -1]]

NotClassified == [ws |-> <<>>, history |-> <<>>, type |-> None]

\* The state initialize_inference_clients leaves with the given model for the
\* conversational client, before any request.
BotInitialized(model) ==
    /\ web_search_cache = EmptyCache
    /\ analysis_cache = EmptyCache
    /\ inference_bot = model
    /\ flask_session = None
    /\ uuids_issued = 0
    /\ last_interact = NotHandled
    /\ classified = NotClassified
    /\ last_web = NoWebSearch

InteractIdle == BotInitialized(None)

Threads == {"th1", "th2"}

LimiterIdle ==
    /\ last_called = 0
    /\ wrapper_pc = [th \in Threads |-> "idle"]
    /\ wake_at = [th \in Threads |-> 0]
    /\ calls_done = [th \in Threads |-> 0]
    /\ entered_at = [th \in Threads |-> 0]
    /\ invocations = {}

EnrichIdle ==
    /\ item_result = None
    /\ item_call = [text |-> None, failed |-> FALSE]
    /\ general_result = None
    /\ enrich_raised = FALSE
    /\ hf_ever_answered = FALSE

\* The state of the module before any call of fetch_trending_topics.
FetchIdle ==
    /\ fquery = ""
    /\ fpc = 0
    /\ inflight = {}
    /\ ftries = RETRY_TRIES
    /\ failed = {}
    /\ returned = NoTrends
    /\ trends = NoTrends
    /\ fcalls = NoCalls
    /\ all_trends = <<>>

\* initialize_inference_clients leaves the summarization client set or None;
\* the API keys come from the environment, any of them possibly unset.
InitFetch ==
    /\ now = 0
    /\ inference_summary \in {"client", None}
    /\ summary_cache = EmptyCache
    /\ hf_outcome = HFStr("S1")
    /\ credentials \in {Providers} \cup {Providers \ {p} : p \in Providers}
    /\ FetchIdle
    /\ SessionsEmpty
    /\ EnrichIdle
    /\ AppIdle
    /\ LimiterIdle
    /\ RetryIdle
    /\ WorkersIdle
    /\ InteractIdle

NextFetch ==
    \/ \E q \in {"", "q1"} : FetchBegin(q)
    \/ \E p \in Providers : StartFetch(p)
    \/ \E p \in Providers : FinishFetch(p)
    \/ CombineTrends
    \/ ServiceChanges

SpecFetch == InitFetch /\ [][NextFetch]_vars

(***************************************************************************)
(* The session store driven directly (SpecSession)                         *)
(***************************************************************************)
\* The turns the calls of SpecSession add.
SessionTurns == {Turn("user", "m1"), Turn("assistant", "m2")}

\* The instants the clock of SpecSession visits: each day boundary and the
\* second after it.
Instants == {d * SESSION_TTL + e : d \in 0..MaxDays, e \in {0, 1}}

\* Whether session s is in the store and not idle for more than 24 hours.
Live(s) ==
    s \in DOMAIN conversation_store
    /\ ~(now - conversation_store[s].last_updated > SESSION_TTL)

\* The calls counted for each session after a store operation: a session
\* that was dropped, or not there, counts from zero.
AppendedAfter(store) ==
    [s \in SessionIds |-> IF s \in DOMAIN store /\ Live(s) THEN appended[s] ELSE 0]

\* What a get_conversation_history(s) call made now finds and returns.
Access(s) ==
    [session |-> s,
     idle |-> s \in DOMAIN conversation_store /\ ~Live(s),
     held |-> IF s \in DOMAIN conversation_store
              THEN Len(conversation_store[s].history) ELSE 0,
     history |-> get_conversation_history(conversation_store, s, now)[s].history]

GetHistory(s) ==
    /\ conversation_store' = get_conversation_history(conversation_store, s, now)
    /\ appended' = AppendedAfter(conversation_store')
    /\ last_access' = Access(s)
    /\ last_clear' = NoClear
    /\ UNCHANGED <<now, lastTurn, outsideSession>>

UpdateHistory(s, turn) ==
    /\ appended[s] < MaxAppends
    /\ conversation_store' =
          update_conversation_history(conversation_store, s, turn.role, turn.content, now)
    /\ appended' = [AppendedAfter(conversation_store') EXCEPT ![s] = @ + 1]
    /\ lastTurn' = turn
    /\ last_access' = Access(s)
    /\ last_clear' = NoClear
    /\ UNCHANGED <<now, outsideSession>>

ClearHistory(s) ==
    /\ conversation_store' = clear_history(conversation_store, s, now)
    /\ appended' = [appended EXCEPT ![s] = 0]
    /\ last_clear' = [session |-> s, known |-> s \in DOMAIN conversation_store,
                      before |-> conversation_store]
    /\ UNCHANGED <<now, lastTurn, last_access, outsideSession>>

Tick ==
    /\ \E t \in Instants : t > now /\ now' = t
    /\ last_clear' = NoClear
    /\ UNCHANGED <<conversation_store, appended, lastTurn, last_access, outsideSession>>

InitSession ==
    /\ now = 0
    /\ inference_summary = "client"
    /\ summary_cache = EmptyCache
    /\ hf_outcome = HFStr("S1")
    /\ credentials = Providers
    /\ FetchIdle
    /\ SessionsEmpty
    /\ EnrichIdle
    /\ AppIdle
    /\ LimiterIdle
    /\ RetryIdle
    /\ WorkersIdle
    /\ InteractIdle

NextSession ==
    \/ \E s \in SessionIds : GetHistory(s)
    \/ \E s \in SessionIds, turn \in SessionTurns : UpdateHistory(s, turn)
    \/ \E s \in SessionIds : ClearHistory(s)
    \/ Tick

SpecSession == InitSession /\ [][NextSession]_vars


(***************************************************************************)
(* The enrichment calls driven directly (SpecEnrich)                       *)
(***************************************************************************)
\* Hours the clock of SpecEnrich can reach.
MaxHours == 1

EnrichTexts == {"", "d1", "d2"}

SummaryLists == {<<>>, <<"S1">>, <<"S1", "">>}

\* One call summarize_with_hf(text); the service, if reached, does o.
Summarize(text, o) ==
    LET r == summarize_with_hf(text, summary_cache, inference_summary, o, now)
    IN /\ summary_cache' = r.cache
       /\ hf_outcome' = o
       /\ item_result' = r.summary
       /\ item_call' = [text |-> text, failed |-> r.called /\ o.type = "raise"]
       /\ enrich_raised' = (enrich_raised \/ r.raised)
       /\ hf_ever_answered' = (hf_ever_answered \/ (r.called /\ o.type # "raise"))
       /\ UNCHANGED <<now, inference_summary, general_result, outsideEnrich>>

\* One call generate_general_summary(summaries); the service, if reached, does o.
GeneralSummary(summaries, o) ==
    LET r == generate_general_summary(summaries, inference_summary, o)
    IN /\ hf_outcome' = o
       /\ general_result' = r.summary
       /\ enrich_raised' = (enrich_raised \/ r.raised)
       /\ hf_ever_answered' = (hf_ever_answered \/ (r.called /\ o.type # "raise"))
       /\ UNCHANGED <<now, inference_summary, summary_cache, item_result, item_call,
                       outsideEnrich>>

HourPasses ==
    /\ now < MaxHours * SUMMARY_TTL
    /\ now' = now + SUMMARY_TTL
    /\ UNCHANGED <<hfVars, enrichVars, fetchVars, sessionVars, appVars, limiterVars,
                   retryVars, workerVars, interactVars>>

InitEnrich ==
    /\ now = 0
    /\ inference_summary \in {"client", None}
    /\ summary_cache = EmptyCache
    /\ hf_outcome = HFStr("S1")
    /\ credentials = Providers
    /\ FetchIdle
    /\ SessionsEmpty
    /\ EnrichIdle
    /\ AppIdle
    /\ LimiterIdle
    /\ RetryIdle
    /\ WorkersIdle
    /\ InteractIdle

NextEnrich ==
    \/ \E text \in EnrichTexts, o \in HFOutcomes : Summarize(text, o)
    \/ \E summaries \in SummaryLists, o \in HFOutcomes : GeneralSummary(summaries, o)
    \/ HourPasses

SpecEnrich == InitEnrich /\ [][NextEnrich]_vars

(***************************************************************************)
(* process_search_query called directly (SpecSearch)                       *)
(***************************************************************************)
\* Cache windows the clock of SpecSearch can pass.
MaxWindows == 1

\* The instants the clock of SpecSearch visits: the start of each window of
\* 30 minutes and its last second.
SearchInstants == {w * SEARCH_TTL + e : w \in 0..MaxWindows, e \in {0, SEARCH_TTL - 1}}

\* What the providers answer at the time of a search.
AllProvidersFail == [p \in Providers |-> ProviderFailure("timeout")]

SomeProvidersAnswer ==
    [p \in Providers |->
        CASE p = "YouTube" -> ProviderAnswer(<<[title |-> "t1", url |-> "u1", text |-> "d1"]>>)
          [] p = "Reddit" -> ProviderAnswer(<<[title |-> "t2", url |-> "u2", text |-> ""]>>)
          [] p = "Google" -> ProviderFailure("http_error")
          [] p = "NewsAPI" -> ProviderAnswer(<<>>)]

SocialAndNewsAnswer ==
    [p \in Providers |->
        CASE p = "YouTube" -> ProviderAnswer(<<[title |-> "t1", url |-> "u1", text |-> "d1"]>>)
          [] p = "NewsAPI" -> ProviderAnswer(<<[title |-> "t2", url |-> "u2", text |-> "d2"]>>)
          [] OTHER -> ProviderAnswer(<<>>)]

SearchWorlds == {AllProvidersFail, SomeProvidersAnswer, SocialAndNewsAnswer}

AppendedBy(session_id, store) ==
    IF session_id = None
    THEN AppendedAfter(store)
    ELSE [AppendedAfter(store) EXCEPT ![session_id] = @ + 1]

\* The results a call of process_search_query returned, None if it raised.
ResultsOf(r) == IF r.raised THEN None ELSE r.response.results

SearchCall(q, session_id, resps) ==
    /\ LET r == process_search_query(q, session_id, cache, conversation_store,
                                     summary_cache, resps, credentials,
                                     inference_summary, hf_outcome, now)
           second == /\ q \in DOMAIN search_first
                     /\ now < search_first[q].at + SEARCH_TTL
       IN /\ cache' = r.cache
          /\ conversation_store' = r.store
          /\ summary_cache' = r.summary_cache
          /\ appended' = AppendedBy(session_id, r.store)
          /\ search_first' =
                IF second THEN search_first
                ELSE [x \in DOMAIN search_first \cup {q} |->
                         IF x = q
                         THEN [called |-> TRUE, at |-> now, results |-> ResultsOf(r)]
                         ELSE search_first[x]]
          /\ last_search' = [query |-> q, second |-> second, fetches |-> r.fetches,
                             results |-> ResultsOf(r),
                             summary |-> IF r.raised THEN None
                                         ELSE r.response.general_summary,
                             raised |-> r.raised,
                             all_failed |-> r.fetches > 0 /\ resps = AllProvidersFail]
    /\ UNCHANGED <<now, admitted, last_request, quota_window, outsideSearch>>

SearchTick ==
    /\ \E t \in SearchInstants : t > now /\ now' = t
    /\ UNCHANGED <<hfVars, fetchVars, sessionVars, enrichVars, appVars, limiterVars,
                   retryVars, workerVars, interactVars>>

InitSearch ==
    /\ now = 0
    /\ inference_summary = "client"
    /\ summary_cache = EmptyCache
    /\ hf_outcome = HFStr("S1")
    /\ credentials = Providers
    /\ FetchIdle
    /\ SessionsEmpty
    /\ EnrichIdle
    /\ AppIdle
    /\ LimiterIdle
    /\ RetryIdle
    /\ WorkersIdle
    /\ InteractIdle

NextSearch ==
    \/ \E q \in Queries, resps \in SearchWorlds : SearchCall(q, None, resps)
    \/ SearchTick

SpecSearch == InitSearch /\ [][NextSearch]_vars

(***************************************************************************)
(* /search behind rate_limit, all requests within one hour (SpecQuota)     *)
(***************************************************************************)
\* The texts clients send as q.
QuotaQueries == {<<"a", "!">>}

SearchRequest(client_ip, q, session_id) ==
    /\ LET r == search_endpoint(client_ip, q, session_id, cache, conversation_store,
                                summary_cache, SomeProvidersAnswer, credentials,
                                inference_summary, hf_outcome, now)
       IN /\ cache' = r.cache
          /\ conversation_store' = r.store
          /\ summary_cache' = r.summary_cache
          /\ appended' = IF r.ran /\ r.status # 400
                         THEN AppendedBy(session_id, r.store)
                         ELSE appended
          /\ admitted' =
                IF ~r.ran THEN admitted
                ELSE [admitted EXCEPT ![client_ip] =
                         IF CacheLive(cache, RateKey(client_ip), now) THEN @ + 1 ELSE 1]
          /\ last_request' = [client |-> client_ip, status |-> r.status,
                              fetches |-> r.fetches, ran |-> r.ran]
    /\ UNCHANGED <<now, search_first, last_search, quota_window, outsideSearch>>

InitQuota ==
    /\ now = 0
    /\ inference_summary = "client"
    /\ summary_cache = EmptyCache
    /\ hf_outcome = HFStr("S1")
    /\ credentials = Providers
    /\ FetchIdle
    /\ SessionsEmpty
    /\ EnrichIdle
    /\ AppIdle
    /\ LimiterIdle
    /\ RetryIdle
    /\ WorkersIdle
    /\ InteractIdle

NextQuota ==
    \E client_ip \in Clients, q \in QuotaQueries, session_id \in SessionIds :
        SearchRequest(client_ip, q, session_id)

SpecQuota == InitQuota /\ [][NextQuota]_vars

(***************************************************************************)
(* One function wrapped by rate_limited(1.0), called by several threads    *)
(* (SpecLimiter).  Time is counted in seconds.                             *)
(***************************************************************************)
\* Calls of the wrapper each thread makes.
MaxCalls == 2
\* How far the clock of SpecLimiter runs.
MaxTime == 3

wait_time_ignores_last_call(t, last) == 0

\* api_integrations.py:115 wait_time = min_interval - elapsed, with elapsed
\* of line 114.
wait_time(t, last) == MIN_INTERVAL - (t - last)

\* A call is only started when the clock of the model has room for its sleep.
RoomToSleep == now + MIN_INTERVAL <= MaxTime

\* Lines 114-116: the thread reads last_called[0] and the time and decides
\* whether to sleep.
EnterWrapper(th) ==
    /\ wrapper_pc[th] = "idle"
    /\ calls_done[th] < MaxCalls
    /\ RoomToSleep
    /\ entered_at' = [entered_at EXCEPT ![th] = now]
    /\ IF wait_time(now, last_called) > 0
       THEN /\ wrapper_pc' = [wrapper_pc EXCEPT ![th] = "sleeping"]
            /\ wake_at' = [wake_at EXCEPT ![th] = now + wait_time(now, last_called)]
       ELSE /\ wrapper_pc' = [wrapper_pc EXCEPT ![th] = "ready"]
            /\ UNCHANGED wake_at
    /\ UNCHANGED <<now, last_called, calls_done, invocations, outsideLimiter>>

\* Line 117: time.sleep(wait_time) returns once wait_time has passed.
SleepReturns(th) ==
    /\ wrapper_pc[th] = "sleeping"
    /\ now >= wake_at[th]
    /\ wrapper_pc' = [wrapper_pc EXCEPT ![th] = "ready"]
    /\ UNCHANGED <<now, last_called, wake_at, calls_done, entered_at, invocations,
                   outsideLimiter>>

\* Lines 118-119: last_called[0] = time.time(); func(...) starts and returns.
InvokeWrapped(th) ==
    /\ wrapper_pc[th] = "ready"
    /\ last_called' = now
    /\ invocations' = invocations \cup
                        {[thread |-> th, call |-> calls_done[th] + 1,
                          entered |-> entered_at[th], at |-> now]}
    /\ calls_done' = [calls_done EXCEPT ![th] = @ + 1]
    /\ wrapper_pc' = [wrapper_pc EXCEPT ![th] = "idle"]
    /\ UNCHANGED <<now, wake_at, entered_at, outsideLimiter>>

SecondPasses ==
    /\ now < MaxTime
    /\ now' = now + 1
    /\ UNCHANGED <<limiterVars, outsideLimiter>>

\* The process has been up for a while: time.time() is well past the 0.0 that
\* last_called starts with.
InitLimiter ==
    /\ now = MIN_INTERVAL
    /\ inference_summary = "client"
    /\ summary_cache = EmptyCache
    /\ hf_outcome = HFStr("S1")
    /\ credentials = Providers
    /\ FetchIdle
    /\ SessionsEmpty
    /\ EnrichIdle
    /\ AppIdle
    /\ LimiterIdle
    /\ RetryIdle
    /\ WorkersIdle
    /\ InteractIdle

NextLimiter ==
    \/ \E th \in Threads : EnterWrapper(th)
    \/ \E th \in Threads : SleepReturns(th)
    \/ \E th \in Threads : InvokeWrapped(th)
    \/ SecondPasses

SpecLimiter == InitLimiter /\ [][NextLimiter]_vars

(***************************************************************************)
(* The same wrapper called by one caller at a time (SpecSerial): a call    *)
(* enters only when no other call is inside the wrapper.  A running thread *)
(* goes on running and the clock goes on, hence the fairness conditions.   *)
(***************************************************************************)
NoCallInside == \A th \in Threads : wrapper_pc[th] = "idle"

EnterAlone(th) == NoCallInside /\ EnterWrapper(th)

NextSerial ==
    \/ \E th \in Threads : EnterAlone(th)
    \/ \E th \in Threads : SleepReturns(th)
    \/ \E th \in Threads : InvokeWrapped(th)
    \/ SecondPasses

SpecSerial ==
    /\ InitLimiter
    /\ [][NextSerial]_vars
    /\ WF_vars(SecondPasses)
    /\ \A th \in Threads : WF_vars(SleepReturns(th)) /\ WF_vars(InvokeWrapped(th))

(***************************************************************************)
(* One function wrapped by retry_with_backoff (SpecRetry): each attempt    *)
(* returns or raises one of the failures of an outbound call.              *)
(***************************************************************************)
\* Calls of the wrapper in one behaviour.
MaxWrapperCalls == 2

\* Line 128: the wrapper is called.
CallWrapper ==
    /\ retry_pc = "idle"
    /\ wrapper_calls < MaxWrapperCalls
    /\ wrapper_calls' = wrapper_calls + 1
    /\ cur_tries' = retry_config
    /\ delay' = RETRY_DELAY
    /\ attempt_log' = <<>>
    /\ retry_result' = None
    /\ retry_raised' = None
    /\ retry_pc' = "calling"
    /\ UNCHANGED <<now, retry_config, outsideRetry>>

\* Lines 129-131 and 137: func(*args, **kwargs) is called and ends with o.
Attempt(o) ==
    /\ retry_pc = "calling"
    /\ attempt_log' = Append(attempt_log, [outcome |-> o, at |-> now])
    /\ LET next == retry_with_backoff(cur_tries, o \in FailKinds)
       IN /\ retry_pc' = IF next = "retry" THEN "sleeping" ELSE "idle"
          /\ retry_result' = CASE next = "retry" -> None
                               [] next = "return" -> "returned"
                               [] next = "propagate" -> "propagated"
          \* line 137: the exception of the call after the loop is not caught
          /\ retry_raised' = IF next = "propagate" THEN o ELSE None
    /\ UNCHANGED <<now, retry_config, cur_tries, delay, wrapper_calls, outsideRetry>>

\* Lines 133-136: time.sleep(_delay); _tries -= 1; _delay *= backoff.
Backoff ==
    /\ retry_pc = "sleeping"
    /\ now' = now + delay
    /\ cur_tries' = cur_tries - 1
    /\ delay' = next_delay(delay)
    /\ retry_pc' = "calling"
    /\ UNCHANGED <<retry_config, attempt_log, retry_result, retry_raised, wrapper_calls,
                   outsideRetry>>

InitRetry ==
    /\ now = 0
    /\ inference_summary = "client"
    /\ summary_cache = EmptyCache
    /\ hf_outcome = HFStr("S1")
    /\ credentials = Providers
    /\ FetchIdle
    /\ SessionsEmpty
    /\ EnrichIdle
    /\ AppIdle
    /\ LimiterIdle
    /\ \E tries \in RetryConfigs : Decorated(tries)
    /\ WorkersIdle
    /\ InteractIdle

NextRetry ==
    \/ CallWrapper
    \/ \E o \in FailKinds \cup {"ok"} : Attempt(o)
    \/ Backoff

SpecRetry == InitRetry /\ [][NextRetry]_vars

(***************************************************************************)
(* Requests of one client handled by several threads at once               *)
(* (SpecQuotaRace): rate_limit's wrapper, one step per cache access.       *)
(***************************************************************************)
\* Requests the client sends in one behaviour.
MaxRaceRequests == 62

RaceClient == "ip1"

\* app.py:101-112: cache.get(key); a missing counter is initialised to 60, a
\* used up one answers 429.
CheckRemaining(w) ==
    /\ worker_pc[w] = "idle"
    /\ requests_started < MaxRaceRequests
    /\ requests_started' = requests_started + 1
    /\ IF ~CacheLive(cache, RateKey(RaceClient), now)
       THEN /\ cache' = CachePut(cache, RateKey(RaceClient), RATE_LIMIT, now, RATE_WINDOW)
            /\ worker_remaining' = [worker_remaining EXCEPT ![w] = RATE_LIMIT]
            /\ worker_pc' = [worker_pc EXCEPT ![w] = "checked"]
            /\ UNCHANGED last_request
       ELSE IF rate_limit_exceeded(cache[RateKey(RaceClient)].value)
       THEN /\ last_request' = [client |-> RaceClient, status |-> 429, fetches |-> 0,
                                ran |-> FALSE]
            /\ UNCHANGED <<cache, worker_remaining, worker_pc>>
       ELSE /\ worker_remaining' = [worker_remaining EXCEPT
                                      ![w] = cache[RateKey(RaceClient)].value]
            /\ worker_pc' = [worker_pc EXCEPT ![w] = "checked"]
            /\ UNCHANGED <<cache, last_request>>
    /\ UNCHANGED <<admitted, outsideWorkers>>

\* app.py:115-116: cache.set(key, remaining_requests - 1); the wrapped
\* function is called.
Decrement(w) ==
    /\ worker_pc[w] = "checked"
    /\ cache' = CachePut(cache, RateKey(RaceClient), worker_remaining[w] - 1, now,
                         RATE_WINDOW)
    /\ admitted' = [admitted EXCEPT ![RaceClient] = @ + 1]
    /\ last_request' = [client |-> RaceClient, status |-> 200, fetches |-> 0, ran |-> TRUE]
    /\ worker_pc' = [worker_pc EXCEPT ![w] = "idle"]
    /\ worker_remaining' = [worker_remaining EXCEPT ![w] = None]
    /\ UNCHANGED <<requests_started, outsideWorkers>>

InitQuotaRace == InitQuota

NextQuotaRace ==
    \/ \E w \in Workers : CheckRemaining(w)
    \/ \E w \in Workers : Decrement(w)

SpecQuotaRace == InitQuotaRace /\ [][NextQuotaRace]_vars

(***************************************************************************)
(* Requests of one client over several hours, one after another            *)
(* (SpecQuotaWindow): rate_limit alone, the wrapped handler left out.      *)
(***************************************************************************)
\* Hours the clock of SpecQuotaWindow can pass.
MaxQuotaHours == 1

\* Rejected requests counted between two admitted ones.
MaxRejected == 2

\* The start of each hour and its last second.
QuotaInstants == {h * RATE_WINDOW + e : h \in 0..MaxQuotaHours, e \in {0, RATE_WINDOW - 1}}

\* The hour a request at time t falls into: the one running, or a new one
\* beginning with this request.  Requests beyond the 61st of an hour are not
\* counted.
WindowAt(w, t) ==
    IF w.requests > 0 /\ t < w.at + RATE_WINDOW
    THEN [at |-> w.at,
          requests |-> IF w.requests < RATE_LIMIT + 1 THEN w.requests + 1 ELSE w.requests]
    ELSE [at |-> t, requests |-> 1]

WindowRequest(client_ip) ==
    /\ LET limit == rate_limit(cache, client_ip, now)
       IN /\ cache' = limit.cache
          /\ admitted' =
                IF ~limit.admitted THEN admitted
                ELSE [admitted EXCEPT ![client_ip] =
                         IF CacheLive(cache, RateKey(client_ip), now) THEN @ + 1 ELSE 1]
          /\ last_request' = [client |-> client_ip,
                              status |-> IF limit.admitted THEN 200 ELSE 429,
                              fetches |-> 0, ran |-> limit.admitted]
    /\ quota_window' =
          [quota_window EXCEPT ![client_ip] =
              WindowAt(@, now) @@
              (IF rate_limit(cache, client_ip, now).admitted
               THEN [last_admitted |-> now, rejected |-> 0, rejected_before |-> @.rejected]
               ELSE [last_admitted |-> @.last_admitted,
                     rejected |-> IF @.rejected < MaxRejected THEN @.rejected + 1
                                  ELSE @.rejected,
                     rejected_before |-> @.rejected_before])]
    /\ UNCHANGED <<now, search_first, last_search, summary_cache, sessionVars,
                   outsideSearch>>

WindowTick ==
    /\ \E t \in QuotaInstants : t > now /\ now' = t
    /\ UNCHANGED <<hfVars, fetchVars, sessionVars, enrichVars, appVars, limiterVars,
                   retryVars, workerVars, interactVars>>

InitQuotaWindow == InitQuota

NextQuotaWindow ==
    \/ WindowRequest(RaceClient)
    \/ WindowTick

SpecQuotaWindow == InitQuotaWindow /\ [][NextQuotaWindow]_vars

(***************************************************************************)
(* /interact requests that carry no JSON body, from several clients, all   *)
(* within one hour (SpecDaily)                                             *)
(***************************************************************************)
\* /interact behind @rate_limit for a request without data (app.py:249-258):
\* the usage count is incremented, then 400 is returned.
InteractWithoutData(client_ip) ==
    /\ LET limit == rate_limit(cache, client_ip, now)
       IN /\ cache' = limit.cache
          /\ daily_usage_count' = IF limit.admitted THEN daily_usage_count + 1
                                  ELSE daily_usage_count
          /\ admitted' =
                IF ~limit.admitted THEN admitted
                ELSE [admitted EXCEPT ![client_ip] =
                         IF CacheLive(cache, RateKey(client_ip), now) THEN @ + 1 ELSE 1]
          /\ last_request' = [client |-> client_ip,
                              status |-> IF limit.admitted THEN 400 ELSE 429,
                              fetches |-> 0, ran |-> limit.admitted]
    /\ UNCHANGED <<now, search_first, last_search, quota_window, summary_cache,
                   sessionVars, inference_summary, hf_outcome, credentials, fetchVars,
                   enrichVars, limiterVars, retryVars, workerVars, interactVars>>

InitDaily == InitQuota

NextDaily == \E client_ip \in Clients : InteractWithoutData(client_ip)

SpecDaily == InitDaily /\ [][NextDaily]_vars

(***************************************************************************)
(* /interact requests of one browser, all at the same instant              *)
(* (SpecInteract)                                                          *)
(***************************************************************************)
\* Requests the run makes.
MaxRequests == 2

\* The inputs users send, as words.
Inputs == {<<>>, <<"thanks">>, <<"latest", "news">>, <<"analyze", "q1">>,
           <<"trending", "q1", "!">>}

\* The session ids a request can carry: none, one the store never held, or one
\* of the store.
ClientSessionIds == {None, "stale"} \cup DOMAIN conversation_store

\* The type lines 265-285 of interact give an input in the current state.
InputTypeOf(ws, client_session_id, said) ==
    LET session_id == resolve_session_id(client_session_id, conversation_store,
                                         Uuid(uuids_issued + 1))
        typed(with_user) == classify_input_type(ws, with_user[session_id].history, said)
    IN typed(update_conversation_history(conversation_store, session_id, "user",
                                         JoinWords(ws), now))

\* What the turn before the user's can say to classify_input_type, which reads
\* it only when the input matches a follow-up pattern.
SaidBefore(ws) == IF HasPhrase(ws, followup_patterns) THEN PrevKinds ELSE {"none"}

\* The client's answers to the one text_generation call of analyze_content.
AnalysisReplies == {reply \in BotReplies : ~reply.chat.raises}

NoReply == [chat |-> BotRaises, gen |-> BotRaises]

\* What the services answer during one request: the answers the branch of the
\* given type asks for vary, the others are fixed.
Worlds(input_type, said) ==
    [said : {said},
     resps : IF input_type \in {"query", "analysis"} THEN SearchWorlds
             ELSE {AllProvidersFail},
     found : IF input_type \in {"web_search", "analysis"} THEN WebWorlds ELSE {<<>>},
     reply : IF input_type = "conversation" THEN BotReplies
             ELSE IF input_type = "analysis" THEN AnalysisReplies
             ELSE {NoReply},
     fault : IF input_type = "conversation" THEN {FALSE} ELSE BOOLEAN,
     creds : {credentials}, client : {inference_summary}, outcome : {hf_outcome},
     model : {inference_bot}]

InteractRequest(client_ip, has_data, ws, client_session_id, w) ==
    /\ daily_usage_count < MaxRequests
    /\ LET answered(r) ==
               /\ cache' = r.m.cache
               /\ conversation_store' = r.m.store
               /\ summary_cache' = r.m.summary_cache
               /\ web_search_cache' = r.m.web_search_cache
               /\ analysis_cache' = r.m.analysis_cache
               /\ flask_session' = r.cookie
               /\ uuids_issued' = r.uuids
               /\ daily_usage_count' = r.count
               /\ admitted' =
                     IF ~r.ran THEN admitted
                     ELSE [admitted EXCEPT ![client_ip] =
                              IF CacheLive(cache, RateKey(client_ip), now)
                              THEN @ + 1 ELSE 1]
               /\ last_request' = [client |-> client_ip, status |-> r.status,
                                   fetches |-> 0, ran |-> r.ran]
               /\ last_interact' = [f \in DOMAIN NotHandled |-> r[f]]
       IN answered(interact_endpoint(client_ip, has_data, ws, client_session_id,
                       ModuleState(cache, conversation_store, summary_cache,
                                   web_search_cache, analysis_cache),
                       flask_session, uuids_issued, daily_usage_count, w, now))
    /\ UNCHANGED <<now, inference_summary, hf_outcome, credentials, inference_bot,
                   search_first, last_search, quota_window, appended, lastTurn,
                   last_access, last_clear, fetchVars, enrichVars, limiterVars,
                   retryVars, workerVars, classified, last_web>>

InitInteract ==
    /\ now = 0
    /\ inference_summary = "client"
    /\ summary_cache = EmptyCache
    /\ hf_outcome = HFStr("S1")
    /\ credentials = Providers
    /\ FetchIdle
    /\ SessionsEmpty
    /\ EnrichIdle
    /\ AppIdle
    /\ LimiterIdle
    /\ RetryIdle
    /\ WorkersIdle
    /\ \E model \in BotModels : BotInitialized(model)

NextInteract ==
    \/ \E ws \in Inputs, client_session_id \in ClientSessionIds :
          \E said \in SaidBefore(ws) :
             \E w \in Worlds(InputTypeOf(ws, client_session_id, said), said) :
                InteractRequest(RaceClient, TRUE, ws, client_session_id, w)
    \/ \E w \in Worlds("conversation", "none") :
          InteractRequest(RaceClient, FALSE, <<>>, None, w)

SpecInteract == InitInteract /\ [][NextInteract]_vars

(***************************************************************************)
(* classify_input_type called on its own (SpecClassify)                    *)
(***************************************************************************)
\* Words of an input.
MaxWords == 2

\* One word of each pattern group, a follow-up word and a word of none.
ClassifyWords == {"tech", "news", "analyze", "find", "thanks", "hello"}

\* Texts of the turns of an earlier exchange.
HistoryTexts == {"search q1", "analysis of q1", "q1 online", "ok"}

\* The words of lines 149-153 a text holds.
KeywordsIn(content) ==
    CASE content = "search q1" -> {"search"}
      [] content = "analysis of q1" -> {"analysis"}
      [] content = "q1 online" -> {"online"}
      [] OTHER -> {}

\* app.py:149-153 applied to the text of a turn.
implied_kind(content) ==
    IF KeywordsIn(content) \cap {"query", "search"} # {} THEN "query"
    ELSE IF KeywordsIn(content) \cap {"analyze", "analysis"} # {} THEN "analysis"
    ELSE IF KeywordsIn(content) \cap {"web", "internet", "online"} # {} THEN "web_search"
    ELSE "none"

\* app.py:135: prev_query = conversation_history[-2].get('content', '')
said_before(conversation_history) ==
    IF Len(conversation_history) > 1
    THEN implied_kind(conversation_history[Len(conversation_history) - 1].content)
    ELSE "none"

\* The histories interact passes at line 285, the user's message already
\* appended: of a new session, or of a session holding one earlier exchange;
\* and no history at all.
HistoriesFor(ws) ==
    {<<>>, <<SystemTurn, Turn("user", JoinWords(ws))>>}
    \cup {<<SystemTurn, Turn("user", u), Turn("assistant", a), Turn("user", JoinWords(ws))>> :
            u \in HistoryTexts, a \in HistoryTexts}

\* The frame of the two steps of a call.
ClassifyFrame ==
    UNCHANGED <<now, hfVars, fetchVars, sessionVars, enrichVars, appVars, limiterVars,
                retryVars, workerVars, web_search_cache, analysis_cache,
                inference_bot, flask_session, uuids_issued, last_interact, last_web>>

\* The caller passes a text and a history.
PassInput(ws, conversation_history) ==
    /\ classified = NotClassified
    /\ classified' = [ws |-> ws, history |-> conversation_history, type |-> "pending"]
    /\ ClassifyFrame

\* classify_input_type returns.
Classify ==
    /\ classified.type = "pending"
    /\ classified' = [classified EXCEPT
                        !.type = classify_input_type(classified.ws, classified.history,
                                                     said_before(classified.history))]
    /\ ClassifyFrame

InitClassify == InitQuota

NextClassify ==
    \/ \E ws \in SeqsUpTo(ClassifyWords, MaxWords) :
          \E conversation_history \in HistoriesFor(ws) : PassInput(ws, conversation_history)
    \/ Classify

SpecClassify == InitClassify /\ [][NextClassify]_vars

(***************************************************************************)
(* perform_web_search called on its own as time passes (SpecWebSearch)     *)
(***************************************************************************)
\* The instants the clock of SpecWebSearch visits: the first and the last
\* second of each 5 minutes.
WebInstants ==
    {w * WEB_SEARCH_CACHE_TTL + e : w \in 0..MaxWindows, e \in {0, WEB_SEARCH_CACHE_TTL - 1}}

WebSearchFrame ==
    UNCHANGED <<hfVars, fetchVars, sessionVars, enrichVars, appVars, limiterVars,
                retryVars, workerVars, analysis_cache, inference_bot, flask_session,
                uuids_issued, last_interact, classified>>

\* perform_web_search(q) is called; the search service would answer found.
WebSearchCall(q, found) ==
    /\ LET returned_with(r) ==
               /\ web_search_cache' = r.cache
               /\ last_web' =
                     [query |-> q, found |-> found, value |-> r.value,
                      requests |-> r.requests, at |-> now,
                      before |-> last_web.failed_at[q],
                      failed_at |-> [last_web.failed_at EXCEPT
                                        ![q] = IF r.requests = 0 THEN @
                                               ELSE IF found = <<>> THEN now
                                               ELSE -1]]
       IN returned_with(perform_web_search(q, web_search_cache, found, now))
    /\ UNCHANGED now
    /\ WebSearchFrame

WebSearchTick ==
    /\ \E t \in WebInstants : t > now /\ now' = t
    /\ UNCHANGED <<web_search_cache, last_web>>
    /\ WebSearchFrame

InitWebSearch == InitQuota

NextWebSearch ==
    \/ \E q \in Queries, found \in WebWorlds : WebSearchCall(q, found)
    \/ WebSearchTick

SpecWebSearch == InitWebSearch /\ [][NextWebSearch]_vars

(***************************************************************************)
(* Claims about fetch_trending_topics (checked under SpecFetch)            *)
(***************************************************************************)
\* What the adapter of p keeps of the raw items its API answered with.
Contribution(p) ==
    IF p = "NewsAPI" THEN Take(returned[p], NEWS_LIMIT) ELSE returned[p]

ItemKeys(p, items) ==
    [i \in 1..Len(items) |-> [source |-> p, title |-> items[i].title, url |-> items[i].url]]

KeysOf(items) ==
    [i \in 1..Len(items) |->
        [source |-> items[i].source, title |-> items[i].title, url |-> items[i].url]]

FromSource(items, p) ==
    LET IsP(x) == x.source = p IN SelectSeq(items, IsP)

\* C1: the list fetch_trending_topics returns never holds two items with the
\* same url.
C1_NoDuplicateUrl ==
    fpc = 6 =>
        \A i, j \in 1..Len(all_trends) :
            i # j => all_trends[i].url # all_trends[j].url

\* C2: whatever subset of providers fails (timeout, HTTP status, parse error),
\* no exception leaves fetch_trending_topics, a failed provider contributes
\* nothing, and every other provider contributes exactly its items.
C2_FailedProvidersContributeNothing ==
    /\ fpc # 7
    /\ (fpc = 6 /\ fquery # "") =>
          \A p \in Providers :
              KeysOf(FromSource(all_trends, p)) =
                  (IF p \in failed THEN <<>> ELSE ItemKeys(p, Contribution(p)))

\* C2 witness: a call returned with one provider failed and another contributing.
C2_Witness ==
    /\ fpc = 6
    /\ failed # {}
    /\ all_trends # <<>>
    /\ \E p \in Providers \ failed : returned[p] # <<>>

\* C8: while the request of one provider is pending, the call of a provider of
\* the same execution that has not been called yet can start.
C8_ProviderStartsWhileAnotherIsPending ==
    \A p, q \in Providers :
        (p \in inflight /\ q \notin inflight /\ ProviderIndex(q) > fpc)
            => ENABLED StartFetch(q)

\* C9: the returned list is the providers' contributions concatenated in the
\* order YouTube, Reddit, Google, NewsAPI, each in the order its provider
\* answered.
C9_FixedProviderOrder ==
    (fpc = 6 /\ fquery # "") =>
        KeysOf(all_trends) =
            ItemKeys("YouTube", Contribution("YouTube"))
            \o ItemKeys("Reddit", Contribution("Reddit"))
            \o ItemKeys("Google", Contribution("Google"))
            \o ItemKeys("NewsAPI", Contribution("NewsAPI"))

\* C9 witness: a returned list with two different items of one provider
\* followed by an item of a later one.
C9_Witness ==
    /\ fpc = 6
    /\ Len(returned["Reddit"]) = 2
    /\ returned["Reddit"][1] # returned["Reddit"][2]
    /\ Len(returned["NewsAPI"]) = 1
    /\ Len(all_trends) = 3

(***************************************************************************)
(* Claims about the session store (checked under SpecSession)              *)
(***************************************************************************)
Min(a, b) == IF a < b THEN a ELSE b

\* C4: every stored history starts with the system turn and has at most
\* cap + 1 = 11 entries; after n update_conversation_history calls on a
\* session (counted since it was created or cleared) it has min(n, cap) + 1
\* entries, so cap + 1 after cap + 5 calls.
C4_HistoryBounded ==
    \A s \in DOMAIN conversation_store :
        LET history == conversation_store[s].history
        IN /\ Len(history) >= 1
           /\ Len(history) <= MAX_HISTORY
           /\ history[1] = SystemTurn
           /\ Len(history) = Min(appended[s], MAX_HISTORY - 1) + 1

\* C4 witness: cap + 5 = 15 calls were made on a session.
C4_Witness ==
    /\ "s1" \in DOMAIN conversation_store
    /\ appended["s1"] = (MAX_HISTORY - 1) + 5
    /\ Len(conversation_store["s1"].history) = MAX_HISTORY

\* C5: an update_conversation_history call on a stored, not expired session
\* whose history is full (11 entries) removes exactly the entry at index 1,
\* keeps the others in order and puts the new turn last.
C5_EvictsOldestNonSystemTurn ==
    [][\A s \in SessionIds :
          (/\ Live(s)
           /\ Len(conversation_store[s].history) = MAX_HISTORY
           /\ appended'[s] = appended[s] + 1)
          => /\ s \in DOMAIN conversation_store'
             /\ conversation_store'[s].history =
                   <<conversation_store[s].history[1]>>
                   \o SubSeq(conversation_store[s].history, 3, MAX_HISTORY)
                   \o <<lastTurn'>>]_vars

\* C5 witness: a full history whose entries at index 1 and 2 differ from each
\* other and from the newest one, reached by an eviction.
C5_Witness ==
    /\ "s1" \in DOMAIN conversation_store
    /\ appended["s1"] > MAX_HISTORY
    /\ Len(conversation_store["s1"].history) = MAX_HISTORY
    /\ conversation_store["s1"].history[2] # conversation_store["s1"].history[3]
    /\ conversation_store["s1"].history[2] # conversation_store["s1"].history[MAX_HISTORY]

(***************************************************************************)
(* Claims about the enrichment calls (checked under SpecEnrich)            *)
(***************************************************************************)
\* C7: as long as every call to the Enrichment Service has failed (raised, or
\* the client is unavailable), every summary summarize_with_hf returned and
\* every summary generate_general_summary returned is a non-empty string and
\* no exception left either function.
C7_FallbackSummariesNonEmpty ==
    ~hf_ever_answered =>
        /\ item_result # ""
        /\ general_result # ""
        /\ ~enrich_raised

\* C7 witness: both functions were called, the service raised in both.
C7_Witness ==
    /\ ~hf_ever_answered
    /\ inference_summary = "client"
    /\ item_result = summarize_on_error(summary_cache).summary
    /\ general_result = general_on_error.summary

(***************************************************************************)
(* Claims about process_search_query's cache (SpecSearch)                  *)
(***************************************************************************)
\* C6: a call of process_search_query for a query, made less than 1800
\* seconds after the call that computed and cached the response of that
\* query, makes no outbound provider request and returns the results of that
\* earlier call.
C6_SecondCallServedFromCache ==
    last_search.second =>
        /\ last_search.fetches = 0
        /\ last_search.results = search_first[last_search.query].results

\* A second call at a later instant of the window, answered with the results
\* the first call fetched.
C6_Witness ==
    /\ last_search.second
    /\ last_search.fetches = 0
    /\ now > search_first[last_search.query].at
    /\ last_search.results # <<>>
    /\ last_search.results = search_first[last_search.query].results

(***************************************************************************)
(* Claims about rate_limit (SpecQuota)                                     *)
(***************************************************************************)
\* C3: once rate_limit has admitted 60 requests of a client within the
\* window, the next request of that client is answered 429 without running
\* the wrapped handler: no provider is asked, and the conversation store, the
\* summary cache and the Flask cache stay as they were.
C3_RejectedAfterQuota ==
    [][\A c \in Clients :
          (admitted[c] = RATE_LIMIT /\ last_request' # last_request
              /\ last_request'.client = c)
          => /\ last_request'.status = 429
             /\ ~last_request'.ran
             /\ last_request'.fetches = 0
             /\ UNCHANGED <<conversation_store, summary_cache, cache>>]_vars

\* The 61st request of a client has been rejected while the other client is
\* still being served.
C3_Witness ==
    \E c \in Clients :
        /\ admitted[c] = RATE_LIMIT
        /\ last_request = [client |-> c, status |-> 429, fetches |-> 0, ran |-> FALSE]
        /\ \E d \in Clients : admitted[d] < RATE_LIMIT /\ admitted[d] > 0

(***************************************************************************)
(* Claims about rate_limited called by several threads (SpecLimiter)                                 *)
(***************************************************************************)
\* C10: any two starts of the function wrapped by rate_limited(1.0) are at
\* least min_interval apart, whichever threads made the calls.
C10_InvocationsSpaced ==
    \A i, j \in invocations :
        i # j => (i.at - j.at >= MIN_INTERVAL \/ j.at - i.at >= MIN_INTERVAL)

(***************************************************************************)
(* Claims about rate_limited called by one caller at a time (SpecSerial)   *)
(***************************************************************************)
\* The invocation before i: the latest one that started no later than i.
Previous(i) ==
    {j \in invocations : j # i /\ j.at <= i.at
                         /\ \A k \in invocations \ {i} : k.at <= i.at => k.at <= j.at}

\* C11: with calls made one after another, a call that enters the wrapper
\* less than min_interval after the previous invocation sleeps until exactly
\* min_interval after it, no invocation starts earlier than that, and every
\* call that entered the wrapper is executed: none is rejected or dropped.
C11_DelayedThenExecuted ==
    /\ [](\A th \in Threads :
            /\ wrapper_pc[th] = "sleeping" => wake_at[th] = last_called + MIN_INTERVAL
            /\ wrapper_pc[th] = "ready" => now >= last_called + MIN_INTERVAL)
    /\ [](\A i \in invocations : \A j \in Previous(i) : i.at >= j.at + MIN_INTERVAL)
    /\ \A th \in Threads : \A n \in 1..(MaxCalls + 1) :
          (wrapper_pc[th] # "idle" /\ calls_done[th] = n - 1)
             ~> (\E i \in invocations : i.thread = th /\ i.call = n)

\* C11 witness: a call entered right after an invocation, slept, and started
\* min_interval after that invocation.
C11_Witness ==
    \E i, j \in invocations :
        /\ i.entered = j.at
        /\ i.at > i.entered
        /\ i.at = j.at + MIN_INTERVAL

(***************************************************************************)
(* Claims about retry_with_backoff (SpecRetry, SpecFetch)                  *)
(***************************************************************************)
\* C12: with tries = 3, a call whose every attempt failed has been attempted
\* once and retried 3 times when its error propagates.
C12_ThreeRetriesBeforePropagation ==
    (retry_result = "propagated" /\ retry_config = RETRY_TRIES)
        => Len(attempt_log) = 1 + RETRY_TRIES

\* C13: a provider whose outbound request failed is counted as contributing
\* nothing only after its fetch has been attempted RETRY_TRIES times.
C13_FailedProviderWasRetried ==
    \A p \in failed : fcalls[p] = RETRY_TRIES

(***************************************************************************)
(* Claims about rate_limit under concurrent requests (SpecQuotaRace)       *)
(***************************************************************************)
\* C14: however the requests of a client interleave, rate_limit admits at
\* most 60 of them within the window.
C14_AdmittedWithinQuota ==
    admitted[RaceClient] <= RATE_LIMIT

(***************************************************************************)
(* Claims about rate_limit's window (SpecQuotaWindow)                      *)
(***************************************************************************)
\* C15: the counter of a client is full again one hour after the first
\* request of the hour: after k requests of the client in the hour that its
\* first request began, 60 - k requests remain (none once k exceeds 60),
\* whatever the client did in the hour before.
C15_CounterResetsWithWindow ==
    \A c \in Clients :
        quota_window[c].requests > 0 =>
            /\ RateKey(c) \in DOMAIN cache
            /\ cache[RateKey(c)].value =
                  (IF quota_window[c].requests < RATE_LIMIT
                   THEN RATE_LIMIT - quota_window[c].requests ELSE 0)

(***************************************************************************)
(* Claims about the daily usage count (SpecDaily)                          *)
(***************************************************************************)
\* C16: the requests admitted from all clients together in a day never exceed
\* the global daily cap; 70 a day is the largest cap the specification names.
C16_DailyCapEnforced ==
    daily_usage_count <= 70

(***************************************************************************)
(* Claims about idle sessions (SpecSession)                                *)
(***************************************************************************)
\* C17: get_conversation_history for a session that was idle for more than
\* 24 hours returns a history holding only the system turn, none of the
\* turns the session held.
C17_IdleSessionStartsAfresh ==
    last_access.idle => last_access.history = <<SystemTurn>>

\* C17 witness: the session held turns, was idle for more than 24 hours, and
\* the call returned the system turn alone.
C17_Witness ==
    /\ last_access.idle
    /\ last_access.held > 1
    /\ last_access.history = <<SystemTurn>>
    /\ conversation_store[last_access.session].last_updated = now

(***************************************************************************)
(* Claims about process_search_query when no provider answers (SpecSearch) *)
(***************************************************************************)
\* C20: a process_search_query call in which every provider's request failed
\* raises nothing and returns a response whose results are the empty list
\* and whose general summary is a non-empty text.
C20_TotalFailureIsWellFormed ==
    last_search.all_failed =>
        /\ ~last_search.raised
        /\ last_search.results = <<>>
        /\ last_search.summary # None
        /\ last_search.summary # ""
        /\ Len(last_search.summary) > Len(Personalized(last_search.query, ""))

\* C20 witness: the four providers were asked, all failed, and the response
\* carries the summary written for an empty list of summaries.
C20_Witness ==
    /\ last_search.all_failed
    /\ last_search.fetches = Len(ProviderOrder)
    /\ last_search.results = <<>>
    /\ last_search.summary =
          Personalized(last_search.query, generate_general_summary(<<>>, None, HFRaise).summary)

(***************************************************************************)
(* Claims about /interact (checked under SpecInteract)                     *)
(***************************************************************************)
\* A request interact answered past its input checks.
Accepted == last_interact.status \in {200, 500}

\* C18: an /interact request whose session id the store does not hold, or
\* that carries none, is answered as any other: a session is created whose
\* history before the request's own turns is the system turn alone, the
\* request's user turn and the answer follow it, and the status is 200 unless
\* the processing itself failed.
C18_UnknownSessionStartsNew ==
    (Accepted /\ ~last_interact.known) =>
        /\ last_interact.session_id \in DOMAIN conversation_store
        /\ last_interact.before = <<SystemTurn>>
        /\ Len(last_interact.after) = 3
        /\ last_interact.after[1] = SystemTurn
        /\ last_interact.after[2].role = "user"
        /\ last_interact.after[3].role = "assistant"
        /\ last_interact.status = (IF last_interact.faulted THEN 500 ELSE 200)
        /\ last_interact.type # None

\* C18 witness: a request carrying an id the store never held was answered
\* with 200 while the store already held another session.
C18_Witness ==
    /\ Accepted
    /\ ~last_interact.known
    /\ last_interact.status = 200
    /\ last_interact.before = <<SystemTurn>>
    /\ Cardinality(DOMAIN conversation_store) = 2
    /\ uuids_issued = 2

\* C19: after every accepted /interact request the session's history ends
\* with the user turn holding the input and one assistant turn after it, and
\* has grown by these two turns (up to the cap of 11).
C19_TurnRecordedOnEveryBranch ==
    Accepted =>
        LET after == last_interact.after
            n == Len(after)
        IN /\ n = Min(Len(last_interact.before) + 2, MAX_HISTORY)
           /\ after[n].role = "assistant"
           /\ after[n - 1] = Turn("user", last_interact.input)

(***************************************************************************)
(* More claims about the enrichment calls (SpecEnrich)                     *)
(***************************************************************************)
\* C21: every summary generate_general_summary returned is a non-empty
\* string, whatever the list and whatever the Enrichment Service did.
C21_GeneralSummaryNeverEmpty == general_result # ""

\* C22: when the Enrichment Service call of summarize_with_hf raises, the
\* summary returned is the item's own text cut to its first 200 characters
\* (the texts of EnrichTexts are shorter, so the text itself).
C22_FallbackIsItemText == item_call.failed => item_result = item_call.text

(***************************************************************************)
(* Claims about classify_input_type (SpecClassify)                         *)
(***************************************************************************)
Classified == classified.type \notin {None, "pending"}

\* No turn before the user's message implies a category, or the message
\* matches no follow-up pattern, or there is no turn before it.
NoInheritance ==
    \/ Len(classified.history) <= 1
    \/ ~HasPhrase(classified.ws, followup_patterns)
    \/ \A i \in 1..(Len(classified.history) - 1) :
          implied_kind(classified.history[i].content) = "none"

\* C23: when no category is inherited, the type is that of the first group
\* the text matches, in the order topic words (query), web-search words
\* (web_search), analysis words (analysis), search verbs (query), and it is
\* conversation when no group matches or the text is empty.
C23_FirstMatchingGroup ==
    (Classified /\ NoInheritance) =>
        LET ws == classified.ws
            topic == HasPhrase(ws, topic_patterns)
            web == HasPhrase(ws, web_search_pattern)
            analysis == HasPhrase(ws, analysis_pattern)
            verb == HasPhrase(ws, query_pattern)
        IN /\ topic => classified.type = "query"
           /\ (~topic /\ web) => classified.type = "web_search"
           /\ (~topic /\ ~web /\ analysis) => classified.type = "analysis"
           /\ (~topic /\ ~web /\ ~analysis /\ verb) => classified.type = "query"
           /\ (~topic /\ ~web /\ ~analysis /\ ~verb) => classified.type = "conversation"
           /\ ws = <<>> => classified.type = "conversation"

\* C23 witness: a text with a topic word and a web-search word, classified
\* query in a session with an earlier exchange.
C23_Witness ==
    /\ classified.type = "query"
    /\ NoInheritance
    /\ Len(classified.history) = 4
    /\ HasPhrase(classified.ws, topic_patterns)
    /\ HasPhrase(classified.ws, web_search_pattern)

\* C24: when the message matches a follow-up pattern and the history holds an
\* earlier exchange, the category the user's previous message implies is the
\* type returned.
C24_InheritsFromPreviousUserMessage ==
    (/\ Classified
     /\ HasPhrase(classified.ws, followup_patterns)
     /\ Len(classified.history) >= 4) =>
        LET previous == classified.history[Len(classified.history) - 2]
        IN (previous.role = "user" /\ implied_kind(previous.content) # "none")
              => classified.type = implied_kind(previous.content)

(***************************************************************************)
(* Claims about the query of /interact (SpecInteract)                      *)
(***************************************************************************)
\* C25: the query /interact looks up in the response caches and passes to the
\* providers is the sanitized form of the user's text.
C25_InteractQueryIsSanitized ==
    (Accepted /\ last_interact.query # None) =>
        last_interact.query = sanitize_input(last_interact.text)

(***************************************************************************)
(* Claims about missing credentials (SpecFetch)                            *)
(***************************************************************************)
\* C26: in every execution a provider whose credential is missing has no
\* outbound call and contributes nothing, and every configured provider that
\* did not fail contributes exactly its items.
C26_MissingCredentialDisablesProvider ==
    /\ \A p \in Providers \ credentials :
          fcalls[p] = 0 /\ p \notin inflight /\ trends[p] = <<>>
    /\ (fpc = 6 /\ fquery # "") =>
          \A p \in Providers :
              KeysOf(FromSource(all_trends, p)) =
                  (IF p \in credentials /\ p \notin failed
                   THEN ItemKeys(p, Contribution(p)) ELSE <<>>)

\* C26 witness: an execution returned, the first provider without its
\* credential and a later one contributing an item.
C26_Witness ==
    /\ fpc = 6
    /\ "YouTube" \notin credentials
    /\ all_trends # <<>>
    /\ \E p \in credentials : fcalls[p] >= 1 /\ returned[p] # <<>>

(***************************************************************************)
(* Claims about the order of the results (SpecSearch)                      *)
(***************************************************************************)
\* The Ranker's score, in thousandths: sourceWeight[item.source] *
\* (1 + min(weightedEngagement / 1000, 1)), with news weighted higher than
\* the social sources.  The items of a response carry source, title, summary
\* and url, and no engagement signal.
sourceWeight(source) == IF source = "NewsAPI" THEN 2 ELSE 1

weightedEngagement(item) == 0

rankScore(item) ==
    sourceWeight(item.source) * (1000 + Min(weightedEngagement(item), 1000))

\* C27: the results of a search response are in descending order of rank
\* score, and two results of equal score are in the order in which their
\* providers were merged.
C27_ResultsByDescendingScore ==
    (~last_search.raised /\ last_search.query # None) =>
        \A i, j \in 1..Len(last_search.results) :
            i < j =>
                LET a == last_search.results[i]
                    b == last_search.results[j]
                IN /\ rankScore(a) >= rankScore(b)
                   /\ rankScore(a) = rankScore(b)
                         => ProviderIndex(a.source) <= ProviderIndex(b.source)

(***************************************************************************)
(* Claims about clear_history (SpecSession)                                *)
(***************************************************************************)
\* C28: after a clear_history call for a session the store held, the session's
\* history is exactly the turn that was its first before the call and its
\* last_updated is the time of the call; after a call for a session id the
\* store did not hold, the store is what it was.
C28_ClearKeepsSystemTurnOnly ==
    last_clear.session # None =>
        IF last_clear.known
        THEN /\ last_clear.session \in DOMAIN conversation_store
             /\ conversation_store[last_clear.session].history =
                   <<last_clear.before[last_clear.session].history[1]>>
             /\ conversation_store[last_clear.session].last_updated = now
        ELSE /\ conversation_store = last_clear.before
             /\ last_clear.session \notin DOMAIN conversation_store

\* C28 witness: a session holding turns and last written earlier was cleared.
C28_Witness ==
    /\ last_clear.known
    /\ Len(last_clear.before[last_clear.session].history) > 2
    /\ last_clear.before[last_clear.session].last_updated < now
    /\ conversation_store[last_clear.session].history = <<SystemTurn>>

(***************************************************************************)
(* Claims about the session id of a response (SpecInteract)                *)
(***************************************************************************)
\* C29: the session_id of the body /interact answers with is the id of the
\* session in which the request's turns were recorded, also when the body
\* comes from the response cache.
C29_ResponseCarriesOwnSession ==
    Accepted => last_interact.body_session_id = last_interact.session_id

(***************************************************************************)
(* Claims about stored turns (SpecInteract)                                *)
(***************************************************************************)
\* C30: the turns a session held when a request arrived are still there,
\* role and content unchanged and in the same places, when the request has
\* been answered (the histories of SpecInteract stay below the cap, so no
\* turn is evicted, and nothing clears them).
C30_StoredTurnsNeverModified ==
    Accepted =>
        /\ Len(last_interact.after) >= Len(last_interact.before)
        /\ SubSeq(last_interact.after, 1, Len(last_interact.before))
              = last_interact.before

(***************************************************************************)
(* Claims about the roles of the stored turns (SpecQuota)                  *)
(***************************************************************************)
\* C31: in every stored history no two adjacent turns after the system turn
\* have the same role, and the first of them, while none has been evicted,
\* is a user turn: no assistant turn stands without the user turn of its
\* request.
C31_TurnsAlternate ==
    \A s \in DOMAIN conversation_store :
        LET history == conversation_store[s].history
        IN /\ \A i \in 2..(Len(history) - 1) : history[i].role # history[i + 1].role
           /\ (Len(history) >= 2 /\ Len(history) < MAX_HISTORY)
                 => history[2].role = "user"

(***************************************************************************)
(* More claims about retry_with_backoff (SpecRetry)                        *)
(***************************************************************************)
\* C32: a call of the wrapper invokes the function at most tries times; only
\* its last invocation can have succeeded, and then the call returned; when
\* the call let an exception out, all tries invocations had failed and the
\* exception is that of the last one.
C32_AtMostTriesInvocations ==
    LET n == Len(attempt_log)
    IN /\ n <= retry_config
       /\ \A i \in 1..(n - 1) : attempt_log[i].outcome \in FailKinds
       /\ (n > 0 /\ attempt_log[n].outcome = "ok") => retry_result = "returned"
       /\ retry_result = "returned" => (n > 0 /\ attempt_log[n].outcome = "ok")
       /\ retry_result = "propagated" =>
             /\ n = retry_config
             /\ retry_raised = attempt_log[n].outcome
             /\ retry_raised \in FailKinds
       /\ (retry_pc = "idle" /\ n > 0) => retry_result # None

\* C32 witness: with tries = 3 the third invocation failed differently from the
\* first two and its exception left the wrapper.
C32_Witness ==
    /\ retry_config = RETRY_TRIES
    /\ retry_result = "propagated"
    /\ Len(attempt_log) = RETRY_TRIES
    /\ attempt_log[1].outcome = "timeout"
    /\ retry_raised = "parse_error"

RECURSIVE Pow(_, _)
Pow(b, e) == IF e = 0 THEN 1 ELSE b * Pow(b, e - 1)

\* C33: the k-th retry starts delay * backoff^(k-1) seconds after the attempt
\* before it (2 s, then 4 s), and the wrapper is left at the time of its last
\* attempt: it does not wait after a success or after the last failure.
C33_WaitsGrowByBackoff ==
    /\ \A k \in 1..(Len(attempt_log) - 1) :
          attempt_log[k + 1].at - attempt_log[k].at
              = RETRY_DELAY * Pow(RETRY_BACKOFF, k - 1)
    /\ (retry_pc = "idle" /\ attempt_log # <<>>)
          => now = attempt_log[Len(attempt_log)].at

\* C33 witness: two retries were made, 2 s and 4 s after the attempts before
\* them, and the call ended.
C33_Witness ==
    /\ Len(attempt_log) = 3
    /\ attempt_log[2].at - attempt_log[1].at = 2
    /\ attempt_log[3].at - attempt_log[2].at = 4
    /\ retry_pc = "idle"

(***************************************************************************)
(* Claims about process_analysis (SpecInteract)                            *)
(***************************************************************************)
\* C34: when process_analysis got no trend data and the web search gave it
\* nothing but the 'No search results found' placeholder, analyze_content was
\* not called and the analysis recorded is the message that no recent
\* information could be found.
C34_PlaceholderNeverAnalysed ==
    (/\ last_interact.status = 200
     /\ last_interact.type = "analysis"
     /\ last_interact.search_results = <<no_search_results(last_interact.query)>>) =>
        /\ last_interact.analysed = <<>>
        /\ last_interact.after[Len(last_interact.after)] =
              Turn("assistant", no_recent_information(last_interact.query))

C36_RejectedRequestsLeaveCounter ==
    [][now' = now =>
          LET c == last_request'.client
              w == quota_window[c]
          IN /\ last_request'.status = 429 => cache' = cache
             /\ (w.last_admitted >= 0 /\ now >= w.last_admitted + RATE_WINDOW) =>
                   /\ last_request'.ran
                   /\ cache'[RateKey(c)] =
                         [value |-> RATE_LIMIT - 1, expires |-> now + RATE_WINDOW]
             /\ \A k \in DOMAIN cache' : cache'[k].value >= 0]_vars

\* C36 witness: a client that had used its 60 requests and was rejected twice
\* has been admitted again, an hour after its last admitted request, and has
\* 59 requests left.
C36_Witness ==
    \E c \in Clients :
        /\ quota_window[c].rejected_before = MaxRejected
        /\ quota_window[c].last_admitted = now
        /\ now >= RATE_WINDOW
        /\ last_request.ran
        /\ cache[RateKey(c)].value = RATE_LIMIT - 1

====
